---------------------------- MODULE Spec2Model ----------------------------
(***************************************************************************)
(* Model of the ESA NEOCC client library (src/ESANEOCC).                   *)
(*                                                                         *)
(*   Spec        the routing layer: query_list and query_object            *)
(*               (neocc.py) with get_list_url, get_list_data, parse_list   *)
(*               (lists.py) and get_object_url, get_object_data (tabs.py)  *)
(*   SpecImpacts Impacts._impacts_parser (tabs.py)                         *)
(*   SpecObs     AsteroidObservations._ast_obs_parser (tabs.py)            *)
(*   SpecMatrix  OrbitProperties._get_matrix (tabs.py)                     *)
(*                                                                         *)
(* Strings that the code edits character by character (designators) are    *)
(* sequences of one-character strings; documents are sequences of lines.   *)
(***************************************************************************)
EXTENDS Integers, Sequences, FiniteSets, TLC

VARIABLES
    pc,       \* position of the running call or parser
    op,       \* "none", "query_list" or "query_object"
    sel,      \* list_name (query_list) or tab (query_object)
    name,     \* object designator (query_object)
    kwargs,   \* keyword arguments of query_object: a function on the keys given
    url,      \* url computed by get_list_url / get_object_url / the parser
    fetches,  \* log of transport requests: <<[url, outcome, payload]>>
    msgs,     \* messages printed so far by the call
    data,     \* payload held by the call (data_obj)
    result,   \* outcome of the call or parser: [kind, val]
    doc,      \* document handed to a parser
    obj       \* attributes of the object a parser fills

vars == <<pc, op, sel, name, kwargs, url, fetches, msgs, data, result, doc, obj>>

callVars == <<op, sel, name, kwargs, url, fetches, msgs, data>>

NoResult == [kind |-> "none", val |-> "none"]
Return(v) == [kind |-> "return", val |-> v]
Raise(e) == [kind |-> "raise", val |-> e]

\* Values of the attributes of a result object: the empty list the
\* constructors assign, a table (its rows; header is the number of the line
\* read as column header where the model keeps it), a string, a number
EmptyList == [kind |-> "list", rows |-> <<>>, text |-> "", header |-> -1]
Table(rows) == [kind |-> "table", rows |-> rows, text |-> "", header |-> -1]
TableAt(h, rows) == [kind |-> "table", rows |-> rows, text |-> "", header |-> h]
Text(t) == [kind |-> "str", rows |-> <<>>, text |-> t, header |-> -1]
TextLines(ls) == [kind |-> "str", rows |-> ls, text |-> "", header |-> -1]
Float(t) == [kind |-> "float", rows |-> <<>>, text |-> t, header |-> -1]

(***************************************************************************)
(* lists.py                                                                *)
(***************************************************************************)

\* lists_dict of get_list_url, as a set of <<key, filename>> pairs
lists_dict ==
    { <<"nea_list", "allneo.lst">>,
      <<"updated_nea", "updated_nea.lst">>,
      <<"monthly_update", "monthly_update.done">>,
      <<"risk_list", "esa_risk_list">>,
      <<"risk_list_special", "esa_special_risk_list">>,
      <<"close_appr_upcoming", "esa_upcoming_close_app">>,
      <<"close_appr_recent", "esa_recent_close_app">>,
      <<"priority_list", "esa_priority_neo_list">>,
      <<"priority_list_faint", "esa_faint_neo_list">>,
      <<"close_encounter", "close_encounter2.txt">>,
      <<"impacted_objects", "impactedObjectsList.txt">> }

ListKeys == { p[1] : p \in lists_dict }

\* get_list_url with the dictionary of a version that knows 9 lists only
get_list_url_nine(list_name) ==
    LET nine == { p \in lists_dict :
                    p[1] \notin {"close_encounter", "impacted_objects"} }
    IN  IF list_name \notin { p[1] : p \in nine }
        THEN Raise("KeyError")
        ELSE Return((CHOOSE p \in nine : p[1] = list_name)[2])

\* get_list_url: the filename of the list, KeyError for a name not in lists_dict
get_list_url(list_name) ==
    IF list_name \notin ListKeys
    THEN Raise("KeyError")
    ELSE Return((CHOOSE p \in lists_dict : p[1] = list_name)[2])

\* What the portal can answer to a request, as far as the parsers tell apart:
\* a well-formed document with rows, the empty document, a well-formed
\* document with no data rows, a payload that resolves to at most one column
\* or one row (server fault), and text that does not match the templates.
Payloads == {"good", "empty", "nodata", "degenerate", "malformed"}

\* parse_nea: read_csv of the text, first column as a Series
parse_nea(payload) ==
    IF payload = "empty" THEN Raise("EmptyDataError") ELSE Return("Series")

\* parse_risk: a payload with at most one column loses it at the drop of the
\* last column and the 'Date/Time' lookup fails
parse_risk(payload) ==
    CASE payload = "empty" -> Raise("EmptyDataError")
      [] payload = "degenerate" -> Raise("KeyError")
      [] payload = "malformed" -> Raise("KeyError")
      [] OTHER -> Return("DataFrame")

\* parse_clo without the check of the number of columns
parse_clo_nocheck(payload) ==
    CASE payload = "empty" -> Raise("EmptyDataError")
      [] payload = "degenerate" -> Raise("ValueError")
      [] payload = "malformed" -> Raise("ValueError")
      [] OTHER -> Return("DataFrame")

\* parse_clo: ConnectionError when len(columns) <= 1, else rename to the 10
\* columns (length mismatch is a ValueError)
parse_clo(payload) ==
    CASE payload = "empty" -> Raise("EmptyDataError")
      [] payload = "degenerate" -> Raise("ConnectionError")
      [] payload = "malformed" -> Raise("ValueError")
      [] OTHER -> Return("DataFrame")

\* parse_pri: column 1 and 2 are merged, so fewer columns is a KeyError
parse_pri(payload) ==
    CASE payload = "empty" -> Raise("EmptyDataError")
      [] payload = "degenerate" -> Raise("KeyError")
      [] payload = "malformed" -> Raise("ValueError")
      [] OTHER -> Return("DataFrame")

\* parse_encounter: ConnectionError when len(columns) <= 1
parse_encounter(payload) ==
    CASE payload = "empty" -> Raise("EmptyDataError")
      [] payload = "degenerate" -> Raise("ConnectionError")
      [] OTHER -> Return("DataFrame")

\* parse_impacted: read_csv only
parse_impacted(payload) ==
    IF payload = "empty" THEN Raise("EmptyDataError") ELSE Return("DataFrame")

\* parse_list with the risk lists read by the parser of the catalogue lists
parse_list_risk_as_nea(list_name, payload) ==
    CASE list_name \in {"nea_list", "updated_nea", "monthly_update",
                        "risk_list", "risk_list_special"} ->
            parse_nea(payload)
      [] list_name \in {"close_appr_upcoming", "close_appr_recent"} ->
            parse_clo(payload)
      [] list_name \in {"priority_list", "priority_list_faint"} ->
            parse_pri(payload)
      [] list_name = "close_encounter" -> parse_encounter(payload)
      [] list_name = "impacted_objects" -> parse_impacted(payload)
      [] OTHER -> Raise("UnboundLocalError")

\* parse_list: the if/elif chain; a name no branch handles leaves neocc_lst
\* unassigned
parse_list(list_name, payload) ==
    CASE list_name \in {"nea_list", "updated_nea", "monthly_update"} ->
            parse_nea(payload)
      [] list_name \in {"risk_list", "risk_list_special"} ->
            parse_risk(payload)
      [] list_name \in {"close_appr_upcoming", "close_appr_recent"} ->
            parse_clo(payload)
      [] list_name \in {"priority_list", "priority_list_faint"} ->
            parse_pri(payload)
      [] list_name = "close_encounter" -> parse_encounter(payload)
      [] list_name = "impacted_objects" -> parse_impacted(payload)
      [] OTHER -> Raise("UnboundLocalError")

(***************************************************************************)
(* The transport (requests.get): it answers with a payload or raises.      *)
(* requests raises its own exception classes (requests.ConnectionError,    *)
(* requests.Timeout), which derive from OSError and not from the builtin   *)
(* ConnectionError; a builtin ConnectionError may still escape it.         *)
(***************************************************************************)
TransportErrors == {"ConnectionError", "requests.ConnectionError",
                    "requests.Timeout"}

\* One answer of the transport: [kind |-> "return", val |-> payload] or
\* [kind |-> "raise", val |-> error]
TransportAnswers ==
    { Return(p) : p \in Payloads } \cup { Raise(e) : e \in TransportErrors }

\* get_list_data: requests.get, decode, parse_list
get_list_data(answer, list_name) ==
    IF answer.kind = "raise" THEN answer ELSE parse_list(list_name, answer.val)

\* get_object_data: requests.get(...).content
get_object_data(answer) == answer

\* "except ConnectionError" catches the builtin class (and subclasses) only
except_ConnectionError_any(outcome) == outcome.kind = "raise"

except_ConnectionError(outcome) ==
    outcome.kind = "raise" /\ outcome.val = "ConnectionError"

(***************************************************************************)
(* tabs.py: urls                                                           *)
(***************************************************************************)

\* str(name) with its spaces kept
Replace20_keep(s) == s

\* str(name).replace(' ', '%20')
Replace20(s) == [i \in DOMAIN s |-> IF s[i] = " " THEN "%20" ELSE s[i]]

\* tab_dict of get_object_url: a suffix string (a sequence of characters) for
\* three tabs, a list of four suffixes for orbit_properties
tab_dict ==
    [impacts |-> [list |-> FALSE, val |-> <<".", "r", "i", "s", "k">>],
     close_approaches |->
         [list |-> FALSE, val |-> <<".", "c", "l", "o", "l", "i", "n">>],
     observations |-> [list |-> FALSE, val |-> <<".", "r", "w", "o">>],
     orbit_properties |->
         [list |-> TRUE, val |-> <<".ke0", ".ke1", ".eq0", ".eq1">>]]

\* tab_dict[tab][k], k counted from 0 as the code does
TabItem(tab, k) ==
    IF k + 1 \in DOMAIN tab_dict[tab].val
    THEN Return(Replace20(<<>>) \o <<tab_dict[tab].val[k + 1]>>)
    ELSE Raise("IndexError")

\* str + tab_dict[tab][k]
UrlWithItem(nm, tab, k) ==
    IF TabItem(tab, k).kind = "raise" THEN TabItem(tab, k)
    ELSE Return(Replace20(nm) \o TabItem(tab, k).val)

\* get_object_url(name, tab, **kw); kw is a function on the keys given
get_object_url(nm, tab, kw) ==
    IF tab \notin DOMAIN tab_dict THEN Raise("KeyError")
    ELSE IF "orbit_elements" \in DOMAIN kw
    THEN IF kw["orbit_elements"] = "keplerian"
         THEN IF "orbit_epoch" \notin DOMAIN kw THEN Raise("KeyError")
              ELSE IF kw["orbit_epoch"] = "present" THEN UrlWithItem(nm, tab, 1)
              ELSE IF kw["orbit_epoch"] = "middle" THEN UrlWithItem(nm, tab, 0)
              ELSE Raise("UnboundLocalError")
         ELSE IF kw["orbit_elements"] = "equinoctial"
         THEN IF "orbit_epoch" \notin DOMAIN kw THEN Raise("KeyError")
              ELSE IF kw["orbit_epoch"] = "present" THEN UrlWithItem(nm, tab, 3)
              ELSE IF kw["orbit_epoch"] = "middle" THEN UrlWithItem(nm, tab, 2)
              ELSE Raise("UnboundLocalError")
         ELSE Raise("ValueError")
    ELSE IF tab_dict[tab].list THEN Raise("TypeError")
    ELSE Return(Replace20(nm) \o tab_dict[tab].val)

\* url_ephe of _ephem_parser, PROPERTIES_URL + ... of _phys_prop_parser and
\* SUMMARY_URL + ... of _summary_parser: the page and the designator
PageUrl(page, nm) == <<page>> \o Replace20(nm)

(***************************************************************************)
(* neocc.py: inputs                                                        *)
(***************************************************************************)

\* list names tried: the names of lists_dict, the names the tests use and
\* names no version knows
TestListNames == {"risk_list_n", "risk_list_s", "clo_app_u", "clo_app_r",
                  "pri_list_n", "pri_list_f"}
ListNames == ListKeys \cup TestListNames \cup {"", "NEA_LIST", "close_approaches"}

\* tab_list of query_object
tab_list == <<"impacts", "close_approaches", "observations",
              "physical_properties", "orbit_properties", "ephemerides",
              "summary">>

Range(s) == { s[i] : i \in DOMAIN s }

Tabs == Range(tab_list) \cup {"orbit", "nea_list"}

\* designators, as sequences of characters
Names == { <<"4", "3", "3">>, <<"2", "1", " ", "D", "E">> }

\* args_dict of query_object (ephemerides), in the order of the loop
args_dict == <<"observatory", "start", "stop", "step", "step_unit">>

OrbitKeys == {"orbit_elements", "orbit_epoch"}

\* keyword arguments tried: any subset of the orbit keys with valid and
\* invalid values, any subset of the ephemerides keys
KwargSets ==
    UNION { [K -> {"keplerian", "equinoctial", "present", "middle", "cometary"}]
            : K \in SUBSET OrbitKeys }
    \cup UNION { [K -> {"x"}] : K \in SUBSET Range(args_dict) }

(***************************************************************************)
(* The tab parsers as query_object sees them: the outcome of parsing one   *)
(* payload.  The parsers themselves are modelled line by line further down.*)
(***************************************************************************)

\* the parser query_object runs on data_obj for the tab
ParseTab(tab, payload, kw) ==
    CASE tab = "impacts" ->
            CASE payload = "empty" -> Raise("EmptyDataError")
              [] payload = "nodata" -> Raise("ValueError")
              [] payload \in {"degenerate", "malformed"} -> Raise("TypeError")
              [] OTHER -> Return("Impacts")
      [] tab = "close_approaches" ->
            IF payload = "empty" THEN Raise("ValueError")
            ELSE Return("DataFrame")
      [] tab = "observations" ->
            CASE payload = "empty" -> Raise("ValueError")
              [] payload \in {"degenerate", "malformed"} -> Raise("TypeError")
              [] OTHER -> Return("AsteroidObservations")
      [] tab = "orbit_properties" ->
            IF kw["orbit_elements"] \notin {"keplerian", "equinoctial"}
            THEN Raise("UnboundLocalError")
            ELSE CASE payload = "empty" -> Raise("ValueError")
                   [] payload \in {"degenerate", "malformed"} ->
                         Raise("TypeError")
                   [] OTHER ->
                         IF kw["orbit_elements"] = "keplerian"
                         THEN Return("KeplerianOrbitProperties")
                         ELSE Return("EquinoctialOrbitProperties")
      [] tab = "ephemerides" ->
            CASE payload = "empty" -> Raise("EmptyDataError")
              [] payload = "degenerate" -> Raise("KeyError")
              [] payload = "malformed" -> Raise("TypeError")
              [] OTHER -> Return("Ephemerides")
      [] tab = "physical_properties" ->
            IF payload = "good" THEN Return("PhysicalProperties")
            ELSE Raise("KeyError")
      [] tab = "summary" ->
            CASE payload = "empty" -> Raise("EmptyDataError")
              [] payload = "good" -> Return("Summary")
              [] OTHER -> Raise("IndexError")
      [] OTHER -> Raise("UnboundLocalError")

(***************************************************************************)
(* neocc.py: query_list and query_object                                   *)
(***************************************************************************)

ListRetryMsg == "Initial attempt to obtain list failed. Reattempting..."
ObjectRetryMsg == "Initial attempt to obtain object data failed. Reattempting..."

\* the tabs whose request sits in a try/except ConnectionError
\* (query_object for four tabs, _ephem_parser for ephemerides)
RetryTabs == {"impacts", "close_approaches", "observations",
              "orbit_properties", "ephemerides"}

NoKwargs == [k \in {} |-> "x"]

\* first key of args_dict missing from kw, 0 if none is missing
FirstMissing(kw) ==
    IF \A i \in DOMAIN args_dict : args_dict[i] \in DOMAIN kw THEN 0
    ELSE CHOOSE i \in DOMAIN args_dict :
            /\ args_dict[i] \notin DOMAIN kw
            /\ \A j \in 1..(i - 1) : args_dict[j] \in DOMAIN kw

\* query_object with the url built before the tab is checked
Validate_late(nm, tab, kw) ==
    IF tab \in {"physical_properties", "summary", "ephemerides"}
       \/ tab \notin Range(tab_list)
    THEN Return(PageUrl(tab, nm))
    ELSE get_object_url(nm, tab, NoKwargs)

\* query_object up to the request: the checks of tab and kwargs and the url;
\* a raise ends the call before any request
Validate(nm, tab, kw) ==
    IF tab \notin Range(tab_list) THEN Raise("KeyError")
    ELSE IF tab \in {"impacts", "close_approaches", "observations"}
    THEN get_object_url(nm, tab, NoKwargs)
    ELSE IF tab = "orbit_properties"
    THEN IF "orbit_elements" \notin DOMAIN kw THEN Raise("KeyError")
         ELSE IF "orbit_epoch" \notin DOMAIN kw THEN Raise("KeyError")
         ELSE get_object_url(nm, tab,
                  [k \in OrbitKeys |-> kw[k]])
    ELSE IF tab = "ephemerides"
    THEN IF FirstMissing(kw) # 0 THEN Raise("KeyError")
         ELSE Return(PageUrl("ephemerides", nm))
    ELSE Return(PageUrl(tab, nm))

\* query_list(list_name), lines 155-156: the url
QueryList(list_name) ==
    /\ pc = "idle"
    /\ op' = "query_list"
    /\ sel' = list_name
    /\ name' = <<>>
    /\ kwargs' = NoKwargs
    /\ LET u == get_list_url(list_name)
       IN  IF u.kind = "raise"
           THEN /\ result' = u
                /\ pc' = "done"
                /\ url' = <<>>
           ELSE /\ result' = NoResult
                /\ pc' = "attempt1"
                /\ url' = u.val
    /\ UNCHANGED <<fetches, msgs, data, doc, obj>>

\* query_object(name, tab, **kwargs) up to the first request
QueryObject(nm, tab, kw) ==
    /\ pc = "idle"
    /\ op' = "query_object"
    /\ sel' = tab
    /\ name' = nm
    /\ kwargs' = kw
    /\ LET u == Validate(nm, tab, kw)
       IN  IF u.kind = "raise"
           THEN /\ result' = u
                /\ pc' = "done"
                /\ url' = <<>>
           ELSE /\ result' = NoResult
                /\ pc' = "attempt1"
                /\ url' = u.val
    /\ UNCHANGED <<fetches, msgs, data, doc, obj>>

\* one entry of the request log: the url asked, the transport's answer and
\* the outcome of the attempt made with it (get_list_data, get_object_data)
Request(answer, out) == [url |-> url, answer |-> answer, outcome |-> out]

\* the first request of query_list: get_list_data inside try
ListAttempt1(answer) ==
    /\ pc = "attempt1"
    /\ op = "query_list"
    /\ fetches' = Append(fetches, Request(answer, get_list_data(answer, sel)))
    /\ LET out == get_list_data(answer, sel)
       IN  IF except_ConnectionError(out)
           THEN /\ msgs' = Append(msgs, ListRetryMsg)
                /\ pc' = "attempt2"
                /\ result' = result
           ELSE /\ msgs' = msgs
                /\ pc' = "done"
                /\ result' = out
    /\ UNCHANGED <<op, sel, name, kwargs, url, data, doc, obj>>

\* the request of query_list in the except branch
ListAttempt2(answer) ==
    /\ pc = "attempt2"
    /\ op = "query_list"
    /\ fetches' = Append(fetches, Request(answer, get_list_data(answer, sel)))
    /\ result' = get_list_data(answer, sel)
    /\ pc' = "done"
    /\ UNCHANGED <<op, sel, name, kwargs, url, msgs, data, doc, obj>>

\* the first request of query_object / _ephem_parser: inside try
ObjectAttempt1(answer) ==
    /\ pc = "attempt1"
    /\ op = "query_object"
    /\ sel \in RetryTabs
    /\ fetches' = Append(fetches, Request(answer, get_object_data(answer)))
    /\ LET out == get_object_data(answer)
       IN  IF except_ConnectionError(out)
           THEN /\ msgs' = Append(msgs, ObjectRetryMsg)
                /\ pc' = "attempt2"
                /\ UNCHANGED <<result, data>>
           ELSE IF out.kind = "raise"
           THEN /\ result' = out
                /\ pc' = "done"
                /\ UNCHANGED <<msgs, data>>
           ELSE /\ data' = out.val
                /\ pc' = "parse"
                /\ UNCHANGED <<msgs, result>>
    /\ UNCHANGED <<op, sel, name, kwargs, url, doc, obj>>

\* the request of query_object / _ephem_parser in the except branch
ObjectAttempt2(answer) ==
    /\ pc = "attempt2"
    /\ op = "query_object"
    /\ fetches' = Append(fetches, Request(answer, get_object_data(answer)))
    /\ LET out == get_object_data(answer)
       IN  IF out.kind = "raise"
           THEN /\ result' = out
                /\ pc' = "done"
                /\ data' = data
           ELSE /\ data' = out.val
                /\ pc' = "parse"
                /\ result' = result
    /\ UNCHANGED <<op, sel, name, kwargs, url, msgs, doc, obj>>

\* the request of _summary_parser and of _get_physical_props: no retry; the
\* except clause of _summary_parser names contents.DoesNotExist while
\* contents is unassigned
HtmlRequest(answer) ==
    /\ pc = "attempt1"
    /\ op = "query_object"
    /\ sel \in {"physical_properties", "summary"}
    /\ fetches' = Append(fetches, Request(answer, answer))
    /\ IF answer.kind = "raise"
       THEN /\ result' = IF sel = "summary" THEN Raise("UnboundLocalError")
                         ELSE answer
            /\ pc' = "done"
            /\ data' = data
       ELSE /\ data' = answer.val
            /\ pc' = "parse"
            /\ result' = result
    /\ UNCHANGED <<op, sel, name, kwargs, url, msgs, doc, obj>>

\* the parser of the tab on data_obj, then "return neocc_obj"; for
\* physical_properties _get_prop_sources requests the page once more
\* (pandas.read_html) after the properties are parsed
Parse ==
    /\ pc = "parse"
    /\ LET out == ParseTab(sel, data, kwargs)
       IN  IF sel = "physical_properties" /\ out.kind = "return"
           THEN /\ pc' = "sources"
                /\ result' = result
           ELSE /\ pc' = "done"
                /\ result' = out
    /\ UNCHANGED <<callVars, doc, obj>>

\* _get_prop_sources: read_html(url); its except clause names
\* df_p.DoesNotExist while df_p is unassigned
Sources(answer) ==
    /\ pc = "sources"
    /\ fetches' = Append(fetches, Request(answer, answer))
    /\ result' = IF answer.kind = "raise" THEN Raise("UnboundLocalError")
                 ELSE IF answer.val = "good" THEN Return("PhysicalProperties")
                 ELSE Raise("IndexError")
    /\ pc' = "done"
    /\ UNCHANGED <<op, sel, name, kwargs, url, msgs, data, doc, obj>>

\* the call is over; the library keeps no state between calls
NextCall ==
    /\ pc = "done"
    /\ op # "none"
    /\ pc' = "idle"
    /\ op' = "none"
    /\ sel' = ""
    /\ name' = <<>>
    /\ kwargs' = NoKwargs
    /\ url' = <<>>
    /\ fetches' = <<>>
    /\ msgs' = <<>>
    /\ data' = "none"
    /\ result' = NoResult
    /\ UNCHANGED <<doc, obj>>

Init ==
    /\ pc = "idle"
    /\ op = "none"
    /\ sel = ""
    /\ name = <<>>
    /\ kwargs = NoKwargs
    /\ url = <<>>
    /\ fetches = <<>>
    /\ msgs = <<>>
    /\ data = "none"
    /\ result = NoResult
    /\ doc = <<>>
    /\ obj = <<>>

Next ==
    \/ \E n \in ListNames : QueryList(n)
    \/ \E nm \in Names, tab \in Tabs, kw \in KwargSets : QueryObject(nm, tab, kw)
    \/ \E a \in TransportAnswers : ListAttempt1(a)
    \/ \E a \in TransportAnswers : ListAttempt2(a)
    \/ \E a \in TransportAnswers : ObjectAttempt1(a)
    \/ \E a \in TransportAnswers : ObjectAttempt2(a)
    \/ \E a \in TransportAnswers : HtmlRequest(a)
    \/ Parse
    \/ \E a \in TransportAnswers : Sources(a)
    \/ NextCall

Spec == Init /\ [][Next]_vars

(***************************************************************************)
(* Properties of the routing layer (checked under Spec)                    *)
(***************************************************************************)

ConnErr == Raise("ConnectionError")

\* the calls whose request sits in a try/except with one retry
RetryCall ==
    \/ op = "query_list"
    \/ op = "query_object" /\ sel \in {"impacts", "close_approaches",
                                       "observations", "orbit_properties",
                                       "ephemerides"}

C2_AnyFailureReattempted ==
    (op = "query_list" /\ pc = "done" /\ Len(fetches) >= 1
        /\ fetches[1].outcome.kind = "raise") =>
        /\ Len(msgs) >= 1
        /\ msgs[1] = ListRetryMsg
        /\ Len(fetches) = 2

\* the list names the KeyError message of get_list_url enumerates
ValidListNames == {"nea_list", "updated_nea", "monthly_update", "risk_list",
                   "risk_list_special", "close_appr_upcoming",
                   "close_appr_recent", "priority_list", "priority_list_faint",
                   "close_encounter", "impacted_objects"}

ValidTabs == {"impacts", "close_approaches", "observations",
              "physical_properties", "orbit_properties", "ephemerides",
              "summary"}

InvalidSelector ==
    \/ op = "query_list" /\ sel \notin ValidListNames
    \/ op = "query_object" /\ sel \notin ValidTabs
    \/ op = "query_object" /\ sel = "orbit_properties"
          /\ ("orbit_elements" \notin DOMAIN kwargs
                \/ "orbit_epoch" \notin DOMAIN kwargs)
    \/ op = "query_object" /\ sel = "ephemerides"
          /\ \E k \in {"observatory", "start", "stop", "step", "step_unit"} :
                k \notin DOMAIN kwargs

\* C3: an invalid selector (unknown list name, unknown tab, orbit_properties
\* without orbit_elements or orbit_epoch, ephemerides without one of its five
\* arguments) ends the call with KeyError and no request is made in it.
C3_InvalidSelectorBeforeFetch ==
    InvalidSelector =>
        /\ pc = "done"
        /\ result = Raise("KeyError")
        /\ fetches = <<>>

\* ephemerides asked with every argument but step_unit
C3_Witness ==
    /\ op = "query_object"
    /\ sel = "ephemerides"
    /\ DOMAIN kwargs = {"observatory", "start", "stop", "step"}
    /\ pc = "done"
    /\ result = Raise("KeyError")

\* the filename documented for each list identifier
DocumentedFile(n) ==
    CASE n = "nea_list" -> "allneo.lst"
      [] n = "updated_nea" -> "updated_nea.lst"
      [] n = "monthly_update" -> "monthly_update.done"
      [] n = "risk_list" -> "esa_risk_list"
      [] n = "risk_list_special" -> "esa_special_risk_list"
      [] n = "close_appr_upcoming" -> "esa_upcoming_close_app"
      [] n = "close_appr_recent" -> "esa_recent_close_app"
      [] n = "priority_list" -> "esa_priority_neo_list"
      [] n = "priority_list_faint" -> "esa_faint_neo_list"
      [] n = "close_encounter" -> "close_encounter2.txt"
      [] n = "impacted_objects" -> "impactedObjectsList.txt"

NineLists == {"nea_list", "updated_nea", "monthly_update", "risk_list",
              "risk_list_special", "close_appr_upcoming", "close_appr_recent",
              "priority_list", "priority_list_faint"}

\* get_list_url(sel) gave the documented filename
GaveDocumentedFile == url = DocumentedFile(sel) /\ pc # "idle"

\* get_list_url(sel) raised KeyError
GaveKeyError ==
    /\ pc = "done"
    /\ result = Raise("KeyError")
    /\ url = <<>>
    /\ fetches = <<>>

TestExpectedFile(n) ==
    CASE n = "nea_list" -> "allneo.lst"
      [] n = "risk_list_n" -> "esa_risk_list"
      [] n = "risk_list_s" -> "esa_special_risk_list"
      [] n = "clo_app_u" -> "esa_upcoming_close_app"
      [] n = "clo_app_r" -> "esa_recent_close_app"
      [] n = "pri_list_n" -> "esa_priority_neo_list"
      [] n = "pri_list_f" -> "esa_faint_neo_list"

\* C5: get_list_url maps nea_list, risk_list_n, risk_list_s, clo_app_u,
\* clo_app_r, pri_list_n and pri_list_f to their filenames without raising.
C5_TestNamesResolve ==
    (op = "query_list"
        /\ sel \in {"nea_list", "risk_list_n", "risk_list_s", "clo_app_u",
                    "clo_app_r", "pri_list_n", "pri_list_f"}) =>
        /\ url = TestExpectedFile(sel)
        /\ ~GaveKeyError

(***************************************************************************)
(* tabs.py: documents, pandas readers and get_indexes                      *)
(*                                                                         *)
(* A document is a sequence of physical lines; a line is the sequence of   *)
(* its cells (the empty sequence is a blank line).  Line numbers and row   *)
(* indices count from 0 as pandas does, so line k is lines[k + 1].         *)
(***************************************************************************)

\* the numbers of the lines a reader keeps: all lines but those in skiprows
KeptLines(lines, skiprows) ==
    SelectSeq([i \in 1..Len(lines) |-> i - 1], LAMBDA k : k \notin skiprows)

\* s without its last n elements (python's s[:-n] for n > 0, s for n = 0)
DropLast(s, n) == IF n >= Len(s) THEN <<>> ELSE SubSeq(s, 1, Len(s) - n)

\* pandas python engine: skiprows are removed, the first kept line is the
\* header when header is TRUE, then the last skipfooter lines are cut and
\* blank lines are dropped.  The result is the sequence of the line numbers
\* that became rows.
ReadRows(lines, skiprows, header, skipfooter) ==
    LET kept == KeptLines(lines, skiprows)
        body == IF header /\ kept # <<>> THEN Tail(kept) ELSE kept
    IN  SelectSeq(DropLast(body, skipfooter), LAMBDA k : lines[k + 1] # <<>>)

\* rows of a table all have the cells of the widest row ("" where absent)
Width(rows) ==
    IF rows = <<>> THEN 0
    ELSE CHOOSE w \in { Len(rows[i]) : i \in DOMAIN rows } :
            \A i \in DOMAIN rows : Len(rows[i]) <= w

Cell(row, c) == IF c \in DOMAIN row THEN row[c] ELSE ""

\* the table of the lines numbered by rowlines
TableOf(lines, rowlines) == [i \in DOMAIN rowlines |-> lines[rowlines[i] + 1]]

\* get_indexes scanning row by row
get_indexes_rowmajor(dfobj, value) ==
    LET ncols == Width(dfobj)
        ColsOf(r) == SelectSeq([c \in 1..ncols |-> c],
                               LAMBDA c : Cell(dfobj[r], c) = value)
        Pairs(r) == [k \in DOMAIN ColsOf(r) |-> <<r - 1, ColsOf(r)[k] - 1>>]
        RECURSIVE Cat(_)
        Cat(r) == IF r > Len(dfobj) THEN <<>> ELSE Pairs(r) \o Cat(r + 1)
    IN  Cat(1)

\* get_indexes(dfobj, value): for each column that holds the value, in
\* column order, the rows that hold it there, in row order
get_indexes(dfobj, value) ==
    LET ncols == Width(dfobj)
        RowsOf(c) == SelectSeq([r \in 1..Len(dfobj) |-> r],
                               LAMBDA r : Cell(dfobj[r], c) = value)
        Pairs(c) == [k \in DOMAIN RowsOf(c) |-> <<RowsOf(c)[k] - 1, c - 1>>]
        RECURSIVE Cat(_)
        Cat(c) == IF c > ncols THEN <<>> ELSE Pairs(c) \o Cat(c + 1)
    IN  Cat(1)

(***************************************************************************)
(* tabs.py: Impacts                                                        *)
(***************************************************************************)

\* most data rows of a risk file tried
MaxImpactRows == 3

\* first cells (dates) of the data rows tried
ImpactDates == {"2095-04-09.5", "2101-09-12.1"}

NoteMarker == "<p> </p>"

\* the footer lines that are not blank: counts, arc, four information
\* lines, computation date, then the note marker and five note lines
FooterText(note) ==
    <<  <<"Based">>, <<"from">>, <<"info1">>, <<"info2">>, <<"info3">>,
        <<"info4">>, <<"comp">> >>
    \o (IF note
        THEN << <<NoteMarker>>, <<"<p>note1</p>">>, <<"10<sup>-6</sup>">>,
                <<"note3">>, <<"note4">>, <<"note5">> >>
        ELSE <<>>)

\* a risk file: line 0 names the object, line 1 is the column header, lines
\* 2 to 4 hold units and rules, then the data rows, then a footer of n
\* physical lines that starts with the 'Based on ...' line (blank lines make
\* up the count)
RiskFile(rows, note, n) ==
    LET text == FooterText(note)
        blanks == [i \in 1..(n - Len(text)) |-> <<>>]
    IN  << <<"Object">>, <<"date", "MJD">>, <<"YYYY">>, <<"rule">>, <<"rule">> >>
        \o [i \in DOMAIN rows |-> <<rows[i], "61000.1">>]
        \o SubSeq(text, 1, 2) \o blanks \o SubSeq(text, 3, Len(text))

\* the documents tried: up to MaxImpactRows data rows, with or without the
\* note, and a footer that the skipfooter of _impacts_parser removes whole
\* (lead 0) or but for its first line (lead 1)
ImpactDocs ==
    { [rows |-> r, note |-> b, lead |-> l] :
        r \in UNION { [1..n -> ImpactDates] : n \in 0..MaxImpactRows },
        b \in BOOLEAN, l \in {0, 1} }

DocLines(d) ==
    RiskFile(d.rows, d.note, (IF d.note THEN 21 ELSE 12) + d.lead)

\* Impacts.__init__
ImpactsInit ==
    [footer_num |-> 0, df_impacts |-> <<>>, impacts |-> EmptyList,
     j |-> -1, observations |-> EmptyList, arc |-> EmptyList,
     computation |-> EmptyList, info |-> EmptyList,
     additional_note |-> EmptyList]

\* footer_num of a parser that takes no note into account
footer_num_of_12(lines) == 12

\* lines 304-312: footer_num from the presence of the note marker in
\* read_fwf(data), whose first line is the header
footer_num_of(lines) ==
    IF get_indexes(TableOf(lines, ReadRows(lines, {}, TRUE, 0)), NoteMarker)
         = <<>>
    THEN 12
    ELSE 21

\* lines 320-324: len(df_impacts.index) == 0
IsEmptyImpacts(lines, df) == Len(df) = 0

\* _impacts_parser lines 303-324: the footer length, the table read, and the
\* ValueError for a table without rows
ImpactsRead ==
    /\ pc = "imp_start"
    /\ LET lines == DocLines(doc)
           fn == footer_num_of(lines)
           df == ReadRows(lines, {0, 2, 3, 4}, TRUE, fn)
       IN  IF IsEmptyImpacts(lines, df)
           THEN /\ pc' = "done"
                /\ result' = Raise("ValueError")
                /\ obj' = [obj EXCEPT !.footer_num = fn]
           ELSE /\ pc' = "imp_read"
                /\ result' = result
                /\ obj' = [obj EXCEPT !.footer_num = fn, !.df_impacts = df]
    /\ UNCHANGED <<callVars, doc>>

\* _impacts_parser lines 325-352: the last row is dropped when its first
\* cell is 'Based'; the table becomes the attribute impacts
ImpactsTable ==
    /\ pc = "imp_read"
    /\ LET lines == DocLines(doc)
           df == obj.df_impacts
           last == lines[df[Len(df)] + 1]
       IN  obj' = [obj EXCEPT !.impacts =
                      IF Cell(last, 1) = "Based" THEN Table(DropLast(df, 1))
                      ELSE Table(df)]
    /\ pc' = "imp_table"
    /\ UNCHANGED <<callVars, result, doc>>

\* a line of the note as the pieces the replacements of lines 263-267
\* tell apart: the decorative tags and the text between them
NotePieces(cell) ==
    CASE cell = "<p>note1</p>" -> <<"<p>", "note1", "</p>">>
      [] cell = "10<sup>-6</sup>" -> <<"10", "<sup>", "-6", "</sup>">>
      [] OTHER -> <<cell>>

\* lines 263-267: the tags are removed, '<sup>' becomes '^'
remove_tags(pieces) ==
    LET kept == SelectSeq(pieces, LAMBDA t : t \notin
                   {"<p>", "</p>", "<span style=\"color: #0000CD;\"><strong>",
                    "</strong></span>", "</sup>"})
    IN  [k \in DOMAIN kept |-> IF kept[k] = "<sup>" THEN "^" ELSE kept[k]]

\* _get_footer lines 246-249: the lines of the file, none taken as header
footer_txt(lines) == TableOf(lines, ReadRows(lines, {}, FALSE, 0))

\* _get_footer lines 253-258: j, the lines the note adds after the footer
footer_j(lines) ==
    IF get_indexes(footer_txt(lines), NoteMarker) = <<>> THEN 0 ELSE 6

\* _get_footer lines 249-267: the note
additional_note_of(lines) ==
    LET txt == footer_txt(lines)
        index == get_indexes(txt, NoteMarker)
    IN  IF index = <<>>
        THEN Text("There is no additional note for this object")
        ELSE TextLines([k \in 1..5 |->
                 remove_tags(NotePieces(txt[index[1][1] + 1 + k][1]))])

\* df_txt.iloc[-k][0]
footer_line(lines, k) ==
    LET txt == footer_txt(lines)
    IN  txt[Len(txt) - k + 1][1]

\* _impacts_parser lines 354-365 with _get_footer lines 270-287: the
\* footer attributes, read at their offsets from the end of the file
ImpactsFooter ==
    /\ pc = "imp_table"
    /\ LET lines == DocLines(doc)
           j == footer_j(lines)
       IN  obj' = [obj EXCEPT
                !.j = j,
                !.observations = Text(footer_line(lines, 7 + j)),
                !.arc = Text(footer_line(lines, 6 + j)),
                !.computation = Text(footer_line(lines, 1 + j)),
                !.info = TextLines(<<footer_line(lines, 5 + j),
                                     footer_line(lines, 4 + j),
                                     footer_line(lines, 3 + j),
                                     footer_line(lines, 2 + j)>>),
                !.additional_note = additional_note_of(lines)]
    /\ pc' = "done"
    /\ result' = Return("Impacts")
    /\ UNCHANGED <<callVars, doc>>

InitImpacts ==
    /\ pc = "imp_start"
    /\ op = "none"
    /\ sel = "impacts"
    /\ name = <<>>
    /\ kwargs = NoKwargs
    /\ url = <<>>
    /\ fetches = <<>>
    /\ msgs = <<>>
    /\ data = "none"
    /\ result = NoResult
    /\ doc \in ImpactDocs
    /\ obj = ImpactsInit

NextImpacts == ImpactsRead \/ ImpactsTable \/ ImpactsFooter

SpecImpacts == InitImpacts /\ [][NextImpacts]_vars

\* the number of data rows of the document parsed
ImpactDataRows == Len(doc.rows)

\* C6: for every impacts document with zero data rows _impacts_parser raises
\* ValueError and never completes with an empty impacts table, whether the
\* footer skip removes the whole footer or leaves a last row 'Based'.
C6_NoDataRaises ==
    (pc \in {"imp_table", "done"} /\ ImpactDataRows = 0) =>
        /\ pc = "done"
        /\ result = Raise("ValueError")
        /\ obj.impacts = EmptyList
        /\ obj.additional_note = EmptyList

(***************************************************************************)
(* tabs.py: AsteroidObservations                                           *)
(***************************************************************************)

\* most optical body rows and most radar rows of an observations file tried
MaxObsRows == 3
MaxRadarRows == 1

RadarMarker == "! Object"

\* the T cell of a body row: an ordinary observation, the second line of a
\* roving observer observation, the second line of a satellite observation
ObsTypes == {"C", "v", "s"}

\* an observations (.rwo) file: version, errmod, RMSast, RMSmag (optional),
\* END_OF_HEADER, the '! Object' banner, the '! Design' column header, the
\* body rows; when there is a radar section, its '! Object' banner, its
\* '! Design' column header and the radar rows
RwoFile(rmsmag, body, radar) ==
    << <<"version =   2">>, <<"errmod  = 'vfcc17'">>, <<"RMSast  =   0.5">> >>
    \o (IF rmsmag THEN << <<"RMSmag  =   0.4">> >> ELSE <<>>)
    \o << <<"END_OF_HEADER">>, <<RadarMarker>>, <<"! Design", "K", "T", "N">> >>
    \o [i \in DOMAIN body |-> <<"433", "O", body[i], "">>]
    \o (IF radar < 0 THEN <<>>
        ELSE << <<RadarMarker>>, <<"! Design", "K", "T", "N">> >>
             \o [i \in 1..radar |-> <<"433", "R", "c", "">>])

\* the documents tried: an observations file holds at least one optical
\* row, and a radar section holds at least one row (radar = -1: no radar
\* section)
ObsDocs ==
    { [rmsmag |-> m, body |-> b, radar |-> r] :
        m \in BOOLEAN,
        b \in UNION { [1..n -> ObsTypes] : n \in 1..MaxObsRows },
        r \in {-1} \cup 1..MaxRadarRows }

ObsLines(d) == RwoFile(d.rmsmag, d.body, d.radar)

\* the document of the empty payload (data = ""): no line at all
NoObsDoc == [rmsmag |-> FALSE, body |-> <<>>, radar |-> -1]

\* data_obj decoded: the lines of the payload
ObsData(payload, d) == IF payload = "" THEN <<>> ELSE ObsLines(d)

\* AsteroidObservations.__init__ (head and diff are locals of the parser)
ObsInit ==
    [rmsmag |-> EmptyList, head |-> {}, diff |-> 0,
     optical_observations |-> EmptyList, radar_observations |-> EmptyList,
     roving_observations |-> EmptyList, sat_observations |-> EmptyList]

NoRoving == Text("There are no Roving Observer observartions for this object")
NoSat == Text("There are no Satellite observartions for this object")
NoRadar == Text("There is no relevant radar information")
NoRMSmag == Text("No data for RMSmag")

\* _get_head_obs lines 641-648: line 3 against the template 'RMSmag  = {mag}'
rmsmag_of(lines) ==
    IF lines[4] = <<"RMSmag  =   0.4">> THEN Float("0.4") ELSE NoRMSmag

\* _ast_obs_parser lines 875-878: the header rows to skip
head_of(rmsmag) == IF rmsmag.kind = "str" THEN 0..4 ELSE 0..5

\* _get_opt_info lines 677-683: the rows of df_obs that hold the mark in
\* the columns 1 to 3
mark_indexes(lines, diff, mark) ==
    LET df_obs == TableOf(lines, ReadRows(lines, 0..5, TRUE, diff))
        df_index == [i \in DOMAIN df_obs |-> SubSeq(df_obs[i], 2, 4)]
    IN  get_indexes(df_index, mark)

\* lines 694-696 and 719-722: the line numbers kept for the marked rows
marked_rows(indexes, head) ==
    [k \in DOMAIN indexes |-> indexes[k][1] + Cardinality(head) + 1]

\* lines 704-707 and 730-733: read_fwf keeping only the lines in rows
read_marked(lines, rows) ==
    ReadRows(lines, (0..(Len(lines) - 1)) \ Range(rows), FALSE, 0)

\* line 757 without the satellite rows
optical_skiprows_nosat(head, v_rows, s_rows) == head \cup Range(v_rows)

\* line 757: skiprows=head + v_rows + s_rows
optical_skiprows(head, v_rows, s_rows) ==
    head \cup Range(v_rows) \cup Range(s_rows)

\* _get_opt_info: <<optical, roving, satellite>>, each table given by the
\* numbers of the lines that are its rows
get_opt_info(lines, diff, head) ==
    LET v_indexes == mark_indexes(lines, diff, "v")
        s_indexes == mark_indexes(lines, diff, "s")
        v_rows == marked_rows(v_indexes, head)
        s_rows == marked_rows(s_indexes, head)
    IN  << Table(ReadRows(lines, optical_skiprows(head, v_rows, s_rows),
                          TRUE, diff)),
           IF v_indexes = <<>> THEN NoRoving
           ELSE Table(read_marked(lines, v_rows)),
           IF s_indexes = <<>> THEN NoSat
           ELSE Table(read_marked(lines, s_rows)) >>

\* pandas raises EmptyDataError when no line is left to read
NothingToRead(lines, skiprows) == KeptLines(lines, skiprows) = <<>>

\* the number of first lines _get_rad_info skips, for a file whose header
\* length is taken into account
rad_skiprows_head(index, head) == index[1][1] + Cardinality(head) + 2

\* _get_rad_info line 793: skiprows=index[0][0]+8
rad_skiprows(index, head) == index[1][1] + 8

\* _get_rad_info: read_fwf skips the first rad_skiprows lines and reads the
\* next line as column header; lines 795-802 then address the columns
\* 'F', 'S', 'YYYY', 'MM', 'DD' by name, a KeyError unless that line is the
\* '! Design' header of the radar section
get_rad_info(lines, index, head) ==
    LET n == rad_skiprows(index, head)
    IN  IF NothingToRead(lines, 0..(n - 1)) THEN Raise("EmptyDataError")
        ELSE IF Cell(lines[n + 1], 1) # "! Design" THEN Raise("KeyError")
        ELSE Return(TableAt(n, ReadRows(lines, 0..(n - 1), TRUE, 0)))

\* _ast_obs_parser reading the header before it tests the payload
ObsHeader_late ==
    /\ pc = "obs_start"
    /\ LET lines == ObsData(data, doc)
       IN  IF lines = <<>>
           THEN /\ pc' = "done"
                /\ result' = Raise("ValueError")
                /\ obj' = [obj EXCEPT !.rmsmag = NoRMSmag,
                                      !.head = head_of(NoRMSmag)]
           ELSE /\ pc' = "obs_head"
                /\ result' = result
                /\ obj' = [obj EXCEPT !.rmsmag = rmsmag_of(lines),
                                      !.head = head_of(rmsmag_of(lines))]
    /\ UNCHANGED <<callVars, doc>>

\* _ast_obs_parser lines 855-881: the check of the empty document, the
\* header attributes and the header length
ObsHeader ==
    /\ pc = "obs_start"
    /\ LET lines == ObsData(data, doc)
       IN  IF lines = <<>>
           THEN /\ pc' = "done"
                /\ result' = Raise("ValueError")
                /\ obj' = obj
           ELSE /\ pc' = "obs_head"
                /\ result' = result
                /\ obj' = [obj EXCEPT !.rmsmag = rmsmag_of(lines),
                                      !.head = head_of(rmsmag_of(lines))]
    /\ UNCHANGED <<callVars, doc>>

\* _ast_obs_parser lines 882-910: the radar marker, the footer length and the
\* four tables
ObsTables ==
    /\ pc = "obs_head"
    /\ LET lines == ObsLines(doc)
           df_p == ReadRows(lines, obj.head, TRUE, 0)
           index == get_indexes(TableOf(lines, df_p), RadarMarker)
           diff == IF index = <<>> THEN 0 ELSE Len(df_p) - index[1][1]
           info == get_opt_info(lines, diff, obj.head)
           rad == IF index = <<>> THEN Return(NoRadar)
                  ELSE get_rad_info(lines, index, obj.head)
       IN  IF NothingToRead(lines, 0..5)
           THEN /\ result' = Raise("EmptyDataError")
                /\ obj' = obj
           ELSE IF rad.kind = "raise"
           THEN /\ result' = rad
                /\ obj' = [obj EXCEPT !.diff = diff,
                                      !.optical_observations = info[1]]
           ELSE /\ result' = Return("AsteroidObservations")
                /\ obj' = [obj EXCEPT
                      !.diff = diff,
                      !.optical_observations = info[1],
                      !.radar_observations = rad.val,
                      !.roving_observations = info[2],
                      !.sat_observations = info[3]]
    /\ pc' = "done"
    /\ UNCHANGED <<callVars, doc>>

InitObs ==
    /\ pc = "obs_start"
    /\ op = "none"
    /\ sel = "observations"
    /\ name = <<>>
    /\ kwargs = NoKwargs
    /\ url = <<>>
    /\ fetches = <<>>
    /\ msgs = <<>>
    /\ \/ data = "rwo" /\ doc \in ObsDocs
       \/ data = "" /\ doc = NoObsDoc
    /\ result = NoResult
    /\ obj = ObsInit

NextObs == ObsHeader \/ ObsTables

SpecObs == InitObs /\ [][NextObs]_vars

\* C7: for every well-formed observations document, with or without radar
\* section and with or without RMSmag line, the parser produces the optical,
\* roving and satellite tables, no physical line is a row of two of them, and
\* their row counts sum to the number of body rows.
C7_ThreeWayPartition ==
    (pc = "done" /\ data = "rwo") =>
        LET opt == obj.optical_observations.rows
            rov == obj.roving_observations.rows
            sat == obj.sat_observations.rows
        IN  /\ result = Return("AsteroidObservations")
            /\ Range(opt) \cap Range(rov) = {}
            /\ Range(opt) \cap Range(sat) = {}
            /\ Range(rov) \cap Range(sat) = {}
            /\ Len(opt) + Len(rov) + Len(sat) = Len(doc.body)

(***************************************************************************)
(* tabs.py: OrbitProperties._get_matrix                                    *)
(*                                                                         *)
(* dfd is the table read from an orbit file.  A matrix is serialized as    *)
(* its upper triangle, row by row, three values a line, each line led by   *)
(* the anchor of the matrix (COV, COR or NOR).                             *)
(***************************************************************************)

\* most rows of the table that precede the first matrix line
MaxLead == 2
\* the serialized values tried are the multiples of 1..MaxMult
MaxMult == 2

Dimensions == {6, 7, 8}
Anchors == <<"COV", "COR", "NOR">>
MatrixNames == {"cov", "cor", "nor", "kep"}
OrbitElements == {"keplerian", "equinoctial"}

\* the ngr keyword the orbit parsers pass for a dimension
NgrNames(dimension) ==
    IF dimension = 8 THEN {"Yarkovsky parameter and Area-to-mass ratio"}
    ELSE IF dimension = 7 THEN {"Yarkovsky parameter", "Area-to-mass ratio"}
    ELSE {"There are no additional NRG parameters"}

\* number of serialized values of a matrix of a dimension
TriangleSize(dimension) == (dimension * (dimension + 1)) \div 2

\* position, counted from 0, of entry (r, c), r <= c, in the serialized
\* upper triangle
TriangleIndex(dimension, r, c) ==
    r * dimension - ((r * (r - 1)) \div 2) + (c - r)

\* the k-th serialized value of the matrix of an anchor
TriangleValue(anchor, k, mult) ==
    LET a == CHOOSE n \in DOMAIN Anchors : Anchors[n] = anchor
    IN  ToString(k * mult + a)

\* the lines of a serialized matrix
MatrixLines(anchor, dimension, mult) ==
    LET n == TriangleSize(dimension)
        nlines == (n + 2) \div 3
    IN  [l \in 1..nlines |->
            <<anchor>> \o
            [c \in 1..(IF 3 * l <= n THEN 3 ELSE n - 3 * (l - 1)) |->
                TriangleValue(anchor, 3 * (l - 1) + c - 1, mult)]]

\* the table of an orbit file: lead rows, then the matrices it holds
OrbTable(d) ==
    LET RECURSIVE Blocks(_)
        Blocks(n) ==
            IF n > Len(Anchors) THEN <<>>
            ELSE (IF Anchors[n] \in d.present
                  THEN MatrixLines(Anchors[n], d.dimension, d.mult)
                  ELSE <<>>) \o Blocks(n + 1)
    IN  [k \in 1..d.lead |-> <<"MJD", ToString(k)>>] \o Blocks(1)

\* the calls of _get_matrix tried
MatrixDocs ==
    { d \in [lead : 0..MaxLead, present : SUBSET Range(Anchors),
             dimension : Dimensions, mult : 1..MaxMult,
             matrix_name : MatrixNames, orbit_element : OrbitElements,
             ngr : UNION { NgrNames(n) : n \in Dimensions }] :
        d.ngr \in NgrNames(d.dimension) }

\* attribute values of _get_matrix: nothing yet, the string, the table
NoMatrix ==
    [kind |-> "none", text |-> "", index |-> <<>>, columns |-> <<>>,
     cells |-> <<>>]
MatrixText(t) ==
    [kind |-> "str", text |-> t, index |-> <<>>, columns |-> <<>>,
     cells |-> <<>>]

\* lines 979-981
matrix_dict(matrix_name) ==
    CASE matrix_name = "cov" -> "COV"
      [] matrix_name = "cor" -> "COR"
      [] matrix_name = "nor" -> "NOR"
      [] OTHER -> ""

\* lines 983-987
mat_var(orbit_element) ==
    IF orbit_element = "keplerian"
    THEN <<"a", "e", "i", "long. node", "arg. peric", "M">>
    ELSE <<"a", "e*sin(LP)", "e*cos(LP)", "tan(i/2)*sin(LN)",
           "tan(i/2)*cos(LN)", "mean long.">>

\* lines 992-994: the string returned when the matrix is taken as absent
NoMatrixText(matrix_name) ==
    CASE matrix_dict(matrix_name) = "COV" ->
             "There is no COVmatrix for this object"
      [] matrix_dict(matrix_name) = "COR" ->
             "There is no CORmatrix for this object"
      [] OTHER -> "There is no NORmatrix for this object"

\* a python dict display: the keys in the order of their first occurrence,
\* each with the value of its last occurrence
dict(pairs) ==
    LET first == SelectSeq([k \in DOMAIN pairs |-> k],
                     LAMBDA k : \A j \in 1..(k - 1) : pairs[j][1] # pairs[k][1])
        last(key) == CHOOSE k \in DOMAIN pairs :
                        /\ pairs[k][1] = key
                        /\ \A j \in (k + 1)..Len(pairs) : pairs[j][1] # key
    IN  [k \in DOMAIN first |->
            <<pairs[first[k]][1], pairs[last(pairs[first[k]][1])][2]>>]

\* dfd.iloc[r, c]
iloc(dfd, r, c) == Cell(dfd[r + 1], c + 1)

\* mat_data of dimension 6 with one entry of column 'e' read from the
\* neighbouring cell
mat_data_6_shifted(mv) ==
    << <<mv[1], <<<<0, 1>>, <<0, 2>>, <<0, 3>>, <<1, 1>>, <<1, 2>>, <<1, 3>>>>>>,
       <<mv[2], <<<<0, 2>>, <<2, 2>>, <<2, 2>>, <<2, 3>>, <<3, 1>>, <<3, 2>>>>>>,
       <<mv[3], <<<<0, 3>>, <<2, 2>>, <<3, 3>>, <<4, 1>>, <<4, 2>>, <<4, 3>>>>>>,
       <<mv[4], <<<<1, 1>>, <<2, 3>>, <<4, 1>>, <<5, 1>>, <<5, 2>>, <<5, 3>>>>>>,
       <<mv[5], <<<<1, 2>>, <<3, 1>>, <<4, 2>>, <<5, 2>>, <<6, 1>>, <<6, 2>>>>>>,
       <<mv[6], <<<<1, 3>>, <<3, 2>>, <<4, 3>>, <<5, 3>>, <<6, 2>>, <<6, 3>>>>>> >>

\* lines 1001-1024: mat_data of dimension 6, each key with the cells of dfd
\* it lists, as <<row offset from i, column>>
mat_data_6(mv) ==
    << <<mv[1], <<<<0, 1>>, <<0, 2>>, <<0, 3>>, <<1, 1>>, <<1, 2>>, <<1, 3>>>>>>,
       <<mv[2], <<<<0, 2>>, <<2, 1>>, <<2, 2>>, <<2, 3>>, <<3, 1>>, <<3, 2>>>>>>,
       <<mv[3], <<<<0, 3>>, <<2, 2>>, <<3, 3>>, <<4, 1>>, <<4, 2>>, <<4, 3>>>>>>,
       <<mv[4], <<<<1, 1>>, <<2, 3>>, <<4, 1>>, <<5, 1>>, <<5, 2>>, <<5, 3>>>>>>,
       <<mv[5], <<<<1, 2>>, <<3, 1>>, <<4, 2>>, <<5, 2>>, <<6, 1>>, <<6, 2>>>>>>,
       <<mv[6], <<<<1, 3>>, <<3, 2>>, <<4, 3>>, <<5, 3>>, <<6, 2>>, <<6, 3>>>>>> >>

\* lines 1034-1070: mat_data of dimension 7
mat_data_7(mv, ngr_parameter) ==
    << <<mv[1], <<<<0, 1>>, <<0, 2>>, <<0, 3>>, <<1, 1>>, <<1, 2>>, <<1, 3>>, <<2, 1>>>>>>,
       <<mv[2], <<<<0, 2>>, <<2, 2>>, <<2, 3>>, <<3, 1>>, <<3, 2>>, <<3, 3>>, <<4, 1>>>>>>,
       <<mv[3], <<<<0, 3>>, <<2, 3>>, <<4, 2>>, <<4, 3>>, <<5, 1>>, <<5, 2>>, <<5, 3>>>>>>,
       <<mv[4], <<<<1, 1>>, <<3, 1>>, <<4, 3>>, <<6, 1>>, <<6, 2>>, <<6, 3>>, <<7, 1>>>>>>,
       <<mv[5], <<<<1, 2>>, <<3, 2>>, <<5, 1>>, <<6, 2>>, <<7, 2>>, <<7, 3>>, <<8, 1>>>>>>,
       <<mv[6], <<<<1, 3>>, <<3, 3>>, <<5, 2>>, <<6, 3>>, <<7, 3>>, <<8, 2>>, <<8, 3>>>>>>,
       <<ngr_parameter, <<<<2, 1>>, <<4, 1>>, <<5, 3>>, <<7, 1>>, <<8, 1>>, <<8, 3>>, <<9, 1>>>>>> >>

\* lines 1078-1117: mat_data of dimension 8
mat_data_8(mv) ==
    << <<mv[1], <<<<0, 1>>, <<0, 2>>, <<0, 3>>, <<1, 1>>, <<1, 2>>, <<1, 3>>, <<2, 1>>, <<2, 2>>>>>>,
       <<mv[6], <<<<0, 2>>, <<2, 3>>, <<3, 1>>, <<3, 2>>, <<3, 3>>, <<4, 1>>, <<4, 2>>, <<4, 3>>>>>>,
       <<mv[6], <<<<0, 3>>, <<3, 1>>, <<5, 1>>, <<5, 2>>, <<5, 3>>, <<6, 1>>, <<6, 2>>, <<6, 3>>>>>>,
       <<mv[6], <<<<1, 1>>, <<3, 2>>, <<5, 2>>, <<7, 1>>, <<7, 2>>, <<7, 3>>, <<8, 1>>, <<8, 2>>>>>>,
       <<mv[6], <<<<1, 2>>, <<3, 3>>, <<5, 3>>, <<7, 2>>, <<8, 3>>, <<9, 1>>, <<9, 2>>, <<9, 3>>>>>>,
       <<mv[6], <<<<1, 3>>, <<4, 1>>, <<6, 1>>, <<7, 3>>, <<9, 1>>, <<10, 1>>, <<10, 2>>, <<10, 3>>>>>>,
       <<"Area-to-mass ratio", <<<<2, 1>>, <<4, 2>>, <<6, 2>>, <<8, 1>>, <<9, 2>>, <<10, 2>>, <<11, 1>>, <<11, 2>>>>>>,
       <<"Yarkovsky parameter", <<<<2, 2>>, <<4, 3>>, <<6, 3>>, <<8, 2>>, <<9, 3>>, <<10, 3>>, <<11, 2>>, <<11, 3>>>>>> >>

\* pd.DataFrame(mat_data, index=matrix_indexes): one column per key of the
\* dict, each list one value per index label (a ValueError otherwise)
DataFrame(dfd, i, mat_data, matrix_indexes) ==
    LET dd == dict(mat_data)
    IN  IF \E k \in DOMAIN dd : Len(dd[k][2]) # Len(matrix_indexes)
        THEN Raise("ValueError")
        ELSE Return(
            [kind |-> "frame", text |-> "", index |-> matrix_indexes,
             columns |-> [k \in DOMAIN dd |-> dd[k][1]],
             cells |-> [k \in DOMAIN dd |->
                          [r \in DOMAIN dd[k][2] |->
                              iloc(dfd, i + dd[k][2][r][1], dd[k][2][r][2])]]])

\* lines 999-1122: the table of a dimension; lines 1123-1126 return mat,
\* which no branch has bound for another dimension
build_matrix(dfd, i, dimension, orbit_element, ngr) ==
    LET mv == mat_var(orbit_element)
    IN  CASE dimension = 6 -> DataFrame(dfd, i, mat_data_6(mv), mv)
          [] dimension = 7 ->
                 DataFrame(dfd, i, mat_data_7(mv, ngr), mv \o <<ngr>>)
          [] dimension = 8 ->
                 DataFrame(dfd, i, mat_data_8(mv),
                     mv \o <<"Area-to-mass ratio", "Yarkovsky parameter">>)
          [] OTHER -> Raise("UnboundLocalError")

\* lines 989-996 and 1123-1124: the anchor is looked up and its first
\* coordinate taken; `not i` holds for row 0
MatrixLocate ==
    /\ pc = "mat_start"
    /\ LET idx == get_indexes(OrbTable(doc), matrix_dict(doc.matrix_name))
       IN  IF matrix_dict(doc.matrix_name) = ""
           THEN /\ result' = Raise("ValueError")
                /\ pc' = "done"
                /\ UNCHANGED <<data, obj>>
           ELSE IF idx = <<>>
           THEN /\ result' = Raise("IndexError")
                /\ pc' = "done"
                /\ UNCHANGED <<data, obj>>
           ELSE IF idx[1][1] = 0
           THEN /\ result' = Return("mat")
                /\ obj' = MatrixText(NoMatrixText(doc.matrix_name))
                /\ pc' = "done"
                /\ data' = idx[1][1]
           ELSE /\ data' = idx[1][1]
                /\ pc' = "mat_build"
                /\ UNCHANGED <<result, obj>>
    /\ UNCHANGED <<op, sel, name, kwargs, url, fetches, msgs, doc>>

\* lines 998-1126
MatrixBuild ==
    /\ pc = "mat_build"
    /\ LET mat == build_matrix(OrbTable(doc), data, doc.dimension,
                               doc.orbit_element, doc.ngr)
       IN  IF mat.kind = "raise"
           THEN result' = mat /\ obj' = obj
           ELSE result' = Return("mat") /\ obj' = mat.val
    /\ pc' = "done"
    /\ UNCHANGED <<op, sel, name, kwargs, url, fetches, msgs, data, doc>>

InitMatrix ==
    /\ pc = "mat_start"
    /\ op = "none"
    /\ sel = "orbit_properties"
    /\ name = <<>>
    /\ kwargs = NoKwargs
    /\ url = <<>>
    /\ fetches = <<>>
    /\ msgs = <<>>
    /\ data = -1
    /\ result = NoResult
    /\ doc \in MatrixDocs
    /\ obj = NoMatrix

NextMatrix == MatrixLocate \/ MatrixBuild

SpecMatrix == InitMatrix /\ [][NextMatrix]_vars

\* the requested matrix is serialized in the table, after at least one row
MatrixFound ==
    /\ matrix_dict(doc.matrix_name) \in doc.present
    /\ get_indexes(OrbTable(doc), matrix_dict(doc.matrix_name))[1][1] > 0

\* the table is square of a dimension and holds, in both triangles, the
\* serialized values of the requested matrix
SymmetricOf(mat, dimension, anchor, mult) ==
    /\ mat.kind = "frame"
    /\ Len(mat.index) = dimension
    /\ Len(mat.columns) = dimension
    /\ \A r, c \in 1..dimension :
          /\ mat.cells[c][r] = mat.cells[r][c]
          /\ r <= c => mat.cells[c][r] =
                 TriangleValue(anchor,
                     TriangleIndex(dimension, r - 1, c - 1), mult)

\* C8: for dimension 6 and the kinds covariance and correlation, whenever
\* the matrix is found in the table _get_matrix returns a table of exactly
\* 6 rows and 6 columns with cell[i][j] = cell[j][i] for all i, j, holding
\* the serialized triangular values.
C8_Dimension6Symmetric ==
    (/\ pc = "done"
     /\ doc.dimension = 6
     /\ doc.matrix_name \in {"cov", "cor"}
     /\ MatrixFound) =>
        /\ result = Return("mat")
        /\ SymmetricOf(obj, 6, matrix_dict(doc.matrix_name), doc.mult)

\* a correlation matrix of dimension 6 was rebuilt from a table that holds
\* the covariance matrix before it
C8_Witness ==
    /\ pc = "done"
    /\ doc.dimension = 6
    /\ doc.matrix_name = "cor"
    /\ doc.present = {"COV", "COR"}
    /\ doc.lead = 1
    /\ data = 8
    /\ obj.kind = "frame"
    /\ obj.cells[2][1] = obj.cells[1][2]
    /\ obj.cells[1][2] = TriangleValue("COR", 1, doc.mult)

\* the labels of a matrix of dimension 7 or 8
MatrixLabels(d) ==
    mat_var(d.orbit_element) \o
        (IF d.dimension = 7 THEN <<d.ngr>>
         ELSE <<"Area-to-mass ratio", "Yarkovsky parameter">>)

\* C9: for dimension 7 and for dimension 8, whenever the matrix is found
\* _get_matrix returns a full symmetric square table (7x7, 8x8) whose rows
\* and columns are both labelled by the six element names followed by the
\* non-gravitational name(s), all column labels distinct.
C9_Dimension78SquareLabelled ==
    (/\ pc = "done"
     /\ doc.dimension \in {7, 8}
     /\ doc.matrix_name \in {"cov", "cor", "nor"}
     /\ MatrixFound) =>
        /\ result = Return("mat")
        /\ SymmetricOf(obj, doc.dimension, matrix_dict(doc.matrix_name),
                       doc.mult)
        /\ obj.index = MatrixLabels(doc)
        /\ obj.columns = MatrixLabels(doc)
        /\ \A j, k \in DOMAIN obj.columns :
              j # k => obj.columns[j] # obj.columns[k]

\* C10: when the anchor of the requested matrix occurs nowhere in the table
\* _get_matrix returns the 'There is no ... matrix for this object' string
\* and raises nothing; when it occurs, at any row, a table is returned and
\* not the string.
C10_SentinelIffAbsent ==
    (pc = "done" /\ doc.matrix_name \in {"cov", "cor", "nor"}) =>
        IF matrix_dict(doc.matrix_name) \in doc.present
        THEN result = Return("mat") /\ obj.kind = "frame"
        ELSE result = Return("mat") /\ obj.kind = "str"

(***************************************************************************)
(* tabs.py: get_indexes on any table                                       *)
(***************************************************************************)

\* most rows and most columns of the tables searched
MaxIdxRows == 2
MaxIdxCols == 2

\* cell contents of the tables searched; the first two are searched for
IdxCells == <<"COV", "RMS", "1.5">>

\* the searches tried: a rectangular table and a value
IdxDocs ==
    { [table |-> t, value |-> v] :
        t \in UNION { [1..r -> [1..c -> Range(IdxCells)]] :
                        r \in 0..MaxIdxRows, c \in 1..MaxIdxCols },
        v \in {IdxCells[1], IdxCells[2]} }

\* listofpos = get_indexes(dfobj, value)
GetIndexes ==
    /\ pc = "idx_start"
    /\ obj' = get_indexes(doc.table, doc.value)
    /\ result' = Return("listofpos")
    /\ pc' = "done"
    /\ UNCHANGED <<callVars, doc>>

InitIndexes ==
    /\ pc = "idx_start"
    /\ op = "none"
    /\ sel = "get_indexes"
    /\ name = <<>>
    /\ kwargs = NoKwargs
    /\ url = <<>>
    /\ fetches = <<>>
    /\ msgs = <<>>
    /\ data = "none"
    /\ result = NoResult
    /\ doc \in IdxDocs
    /\ obj = <<>>

NextIndexes == GetIndexes

SpecIndexes == InitIndexes /\ [][NextIndexes]_vars

\* listofpos holds, once each, the coordinates of the cells of the table
\* equal to the value
AllPositions(listofpos, table, value) ==
    /\ \A k, l \in DOMAIN listofpos : k # l => listofpos[k] # listofpos[l]
    /\ Range(listofpos) =
          { <<r - 1, c - 1>> : r \in DOMAIN table, c \in 1..Width(table) }
          \cap { p \in (0..Len(table)) \X (0..Width(table)) :
                    p[1] + 1 \in DOMAIN table
                    /\ Cell(table[p[1] + 1], p[2] + 1) = value }

\* C11: get_indexes returns the coordinates of every cell equal to the value
\* ordered by ascending row index, and for a fixed row in the declared
\* column order, for every table and value.
C11_RowThenColumnOrder ==
    pc = "done" =>
        /\ AllPositions(obj, doc.table, doc.value)
        /\ \A k, l \in DOMAIN obj :
              k < l => \/ obj[k][1] < obj[l][1]
                       \/ obj[k][1] = obj[l][1] /\ obj[k][2] < obj[l][2]

\* C11 as amended: get_indexes returns the coordinates of every cell equal
\* to the value ordered by column, in the declared column order, and for a
\* fixed column by ascending row index.
C11_ColumnThenRowOrder ==
    pc = "done" =>
        /\ AllPositions(obj, doc.table, doc.value)
        /\ \A k, l \in DOMAIN obj :
              k < l => \/ obj[k][2] < obj[l][2]
                       \/ obj[k][2] = obj[l][2] /\ obj[k][1] < obj[l][1]

\* a value found in the first column of the second row and in the second
\* column of the first row: the second row is listed first
C11_Witness ==
    /\ pc = "done"
    /\ doc.value = "COV"
    /\ doc.table = << <<"RMS", "COV">>, <<"COV", "1.5">> >>
    /\ obj = << <<1, 0>>, <<0, 1>> >>

(***************************************************************************)
(* tabs.py: OrbitProperties, KeplerianOrbitProperties and                  *)
(* EquinoctialOrbitProperties                                              *)
(*                                                                         *)
(* An orbit file: three header lines, END_OF_HEADER, the designator, an    *)
(* optional '! SOLUTION' line, the comment that names the elements, the    *)
(* element line (KEP or EQU), MJD, MAG, a comment, LSP, for dimension 7    *)
(* and 8 two comments and NGR, then (keplerian) the '! PERIHELION' block   *)
(* and '! U_PAR', '! RMS' (equinoctial: with '! EIG' and '! WEA') and the  *)
(* matrices.  A line is the sequence of its whitespace separated tokens.   *)
(***************************************************************************)

\* most anchors an orbit file tried lacks
MaxAbsent == 1

OrbAnchors == {"LSP", "PERIHELION", "U_PAR", "RMS", "COV", "COR", "NOR"}

\* the orbit files tried; ngr0: the first NGR value is 0
OrbDocs ==
    { d \in [empty : BOOLEAN, solution : BOOLEAN, dimension : Dimensions,
             orbit_element : OrbitElements, absent : SUBSET OrbAnchors,
             ngr0 : BOOLEAN, mult : {1}] :
        /\ Cardinality(d.absent) <= MaxAbsent
        /\ d.ngr0 => d.dimension = 7
        /\ d.empty => (~d.solution /\ d.dimension = 6 /\ d.absent = {}) }

\* the tokens of a line of n numbers
Numbers(n) == [k \in 1..n |-> ToString(k)]

OrbHeaderLines ==
    << <<"format  = 'OEF2.0'       ! file format">>,
       <<"rectype = 'ML'           ! record type (1L/ML)">>,
       <<"refsys  = ECLM J2000     ! default reference system">>,
       <<"END_OF_HEADER">>,
       <<"433">> >>

\* the lines of an orbit file
OrbLines(d) ==
    LET kep == d.orbit_element = "keplerian"
        has(a) == a \notin d.absent
        opt(c, ls) == IF c THEN ls ELSE <<>>
    IN  IF d.empty THEN <<>>
        ELSE
        OrbHeaderLines
        \o opt(d.solution, << <<"!", "SOLUTION", "1">> >>)
        \o << <<"!", IF kep THEN "Keplerian" ELSE "Equinoctial", "elements:",
                "e1,", "e2,", "e3,", "e4,", "e5,", "e6,", "x1", "x2", "x3">>,
              <<IF kep THEN "KEP" ELSE "EQU">> \o Numbers(6),
              <<"MJD", "59600.0", "TDT">>,
              <<"MAG", "10.8", "0.46">>,
              <<"!", "Non-gravitational", "parameters:">> >>
        \o opt(has("LSP"),
               << <<"LSP", "1", "1", ToString(d.dimension)>>
                  \o Numbers(d.dimension - 6) >>)
        \o opt(d.dimension > 6,
               << <<"!", "Non-grav">>, <<"!", "A/M,", "Yarkovsky">>,
                  <<"NGR", IF d.ngr0 THEN "0" ELSE "0.5", "0.25">> >>)
        \o opt(kep /\ has("PERIHELION"),
               << <<"!", "PERIHELION", "1.13">>, <<"!", "APHELION", "1.78">>,
                  <<"!", "ANODE", "0.18">>, <<"!", "DNODE", "0.33">>,
                  <<"!", "MOID", "0.15">>, <<"!", "PERIOD", "643.2">>,
                  <<"!", "PHA", "F">>, <<"!", "VINFTY", "11.6">> >>)
        \o opt(kep /\ has("U_PAR"), << <<"!", "U_PAR", "0.0">> >>)
        \o opt(has("RMS"),
               << <<"!", "RMS">> \o Numbers(d.dimension) >>
               \o opt(~kep, << <<"!", "EIG">> \o Numbers(d.dimension),
                               <<"!", "WEA">> \o Numbers(d.dimension) >>))
        \o opt(has("COV"), MatrixLines("COV", d.dimension, d.mult))
        \o opt(kep /\ has("COR"), MatrixLines("COR", d.dimension, d.mult))
        \o opt(~kep /\ has("NOR"), MatrixLines("NOR", d.dimension, d.mult))

\* attribute values of the orbit classes: the empty list of __init__, a
\* string, a table (index and column labels, cells row by row)
OrbList ==
    [kind |-> "list", text |-> "", index |-> <<>>, columns |-> <<>>,
     cells |-> <<>>]
Frame(index, columns, cells) ==
    [kind |-> "frame", text |-> "", index |-> index, columns |-> columns,
     cells |-> cells]

\* OrbitProperties.__init__ and the __init__ of its two subclasses
OrbInit ==
    [form |-> OrbList, rectype |-> OrbList, refsys |-> OrbList,
     epoch |-> OrbList, mag |-> OrbList, lsp |-> OrbList, ngr |-> OrbList,
     kep |-> OrbList, equinoctial |-> OrbList, perihelion |-> OrbList,
     aphelion |-> OrbList, anode |-> OrbList, dnode |-> OrbList,
     moid |-> OrbList, period |-> OrbList, pha |-> OrbList,
     vinfty |-> OrbList, u_par |-> OrbList, rms |-> OrbList,
     eig |-> OrbList, wea |-> OrbList, cov |-> OrbList, cor |-> OrbList,
     nor |-> OrbList]

\* df.iloc[r0:r1, c0:c1]: slices are cut to the table
SliceRow(df, r, c0, c1) ==
    IF r + 1 \in DOMAIN df
    THEN << [c \in 1..(c1 - c0) |-> Cell(df[r + 1], c0 + c)] >>
    ELSE <<>>

\* lines 1202-1210: the skip rows, by the first token of the line after
\* the designator
last_skip_rows(lines) ==
    IF Len(lines) >= 6 /\ Cell(lines[6], 2) = "SOLUTION"
    THEN {0, 1, 2, 3, 4, 5, 10}
    ELSE {0, 1, 2, 3, 4, 9}

\* lines 1333-1334: the skip rows of the Keplerian parser
kep_skip_rows(lines) == {0, 1, 2, 3, 4, 9}

\* what a parser step gives: the outcome and the attributes assigned so far
Step(r, o) == [result |-> r, obj |-> o]

\* _get_matrix as called by the parsers: lines 988-1126
get_matrix(dfd, matrix_name, dimension, orbit_element, ngr) ==
    LET idx == get_indexes(dfd, matrix_dict(matrix_name))
    IN  IF matrix_dict(matrix_name) = "" THEN Raise("ValueError")
        ELSE IF idx = <<>> THEN Raise("IndexError")
        ELSE IF idx[1][1] = 0
        THEN Return(MatrixText(NoMatrixText(matrix_name)))
        ELSE build_matrix(dfd, idx[1][1], dimension, orbit_element, ngr)

\* lines 1219-1245: lsp and ngr by the dimension of the LSP line; a table
\* must have one row for its index label and as many columns as names
lsp_ngr(df, lsp_index) ==
    LET dim == iloc(df, lsp_index, 3)
        ngr_row(c1) == SliceRow(df, lsp_index + 3, 1, c1)
        ngr_names == <<"Area-to-mass ratio in m^2/ton",
                       "Yarkovsky parameter in 1E-10au/day^2">>
        ngr_names_8 == <<"Area-to-mass ratio in m^2/ton",
                         "Yarkov sky parameter in 1E-10au/day^2">>
    IN  CASE dim = "7" ->
               IF Len(ngr_row(3)) # 1 \/ Len(ngr_row(3)[1]) # Len(ngr_names)
               THEN Raise("ValueError")
               ELSE Return(
                   <<Frame(<<"LSP">>,
                        <<"model used", "number of model parameters",
                          "dimension", "">>, SliceRow(df, lsp_index, 1, 5)),
                     Frame(<<"NGR">>, ngr_names, ngr_row(3))>>)
          [] dim = "8" ->
               IF Len(ngr_row(2)) # 1 \/ Len(ngr_row(2)[1]) # Len(ngr_names_8)
               THEN Raise("ValueError")
               ELSE Return(
                   <<Frame(<<"LSP">>,
                        <<"model used", "number of model parameters",
                          "dimension", "", "">>, SliceRow(df, lsp_index, 1, 6)),
                     Frame(<<"NGR">>, ngr_names_8, ngr_row(2))>>)
          [] OTHER ->
               Return(
                   <<Frame(<<"LSP">>,
                        <<"model used", "number of model parameters",
                          "dimension">>, SliceRow(df, lsp_index, 1, 4)),
                     MatrixText("There are no gravitational parameters calculated for this object")>>)

\* _orb_prop_parser, lines 1183-1249
orb_prop_parser(lines, o) ==
    IF lines = <<>> THEN Step(Raise("ValueError"), o)
    ELSE
    LET df == TableOf(lines, ReadRows(lines, last_skip_rows(lines), TRUE, 0))
        o1 == [o EXCEPT !.form = MatrixText(lines[1][1]),
                        !.rectype = MatrixText(lines[2][1]),
                        !.refsys = MatrixText(lines[3][1]),
                        !.epoch = MatrixText(iloc(df, 1, 1)),
                        !.mag = Frame(<<"MAG">>, <<"", "">>,
                                      SliceRow(df, 2, 1, 3))]
        idx == get_indexes(df, "LSP")
    IN  IF idx = <<>> THEN Step(Raise("IndexError"), o1)
        ELSE LET ln == lsp_ngr(df, idx[1][1])
             IN  IF ln.kind = "raise" THEN Step(ln, o1)
                 ELSE Step(Return("OrbitProperties"),
                           [o1 EXCEPT !.lsp = ln.val[1], !.ngr = ln.val[2]])

\* int(self.lsp.iloc[0, 2])
matrix_dimension_of(lsp) ==
    CHOOSE n \in 0..9 : ToString(n) = lsp.cells[1][3]

\* lines 1372-1398: the column names of the Keplerian RMS row
kep_rms_names(dimension, ngr) ==
    <<"a", "e", "i", "long. node", "arg. peric.", "mean anomaly">>
    \o (IF dimension = 8
        THEN <<"Area-to-mass ratio", "Yarkovsky parameter">>
        ELSE IF dimension = 7
        THEN <<IF ngr.cells[1][1] = "0" THEN "Yarkovsky parameter"
               ELSE "Area-to-mass ratio">>
        ELSE <<>>)

\* lines 1496-1529: the column names of the Equinoctial RMS, EIG, WEA rows
equi_rms_names(dimension, ngr) ==
    <<"a", "e*sin(LP)", "e*cos(LP)", "tan(i/2)*sin(LN)", "tan(i/2)*cos(LN)",
      "mean long.">>
    \o (IF dimension = 8
        THEN <<"Area-to-mass ratio", "Yarkovsky parameter">>
        ELSE IF dimension = 7
        THEN <<IF ngr.cells[1][1] = "0" THEN "Yarkovsky parameter"
               ELSE "Area-to-mass ratio">>
        ELSE <<>>)

\* lines 1376, 1385-1388, 1398 (1505, 1514-1517, 1533): ngr_parameter
ngr_parameter_of(dimension, ngr) ==
    IF dimension = 8 THEN "Yarkovsky parameter and Area-to-mass ratio"
    ELSE IF dimension = 7
    THEN (IF ngr.cells[1][1] = "0" THEN "Yarkovsky parameter"
          ELSE "Area-to-mass ratio")
    ELSE "There are no additional NRG parameters"

\* the slice of a row that gets the names: 2:10, 2:9 or 2:8
rms_width(dimension) == IF dimension \in {7, 8} THEN dimension ELSE 6

\* _orb_kep_prop_parser lines 1332-1402, after the parent's parser: the
\* element row, the perihelion block, u_par and the RMS row
kep_elements(lines, o) ==
    LET df == TableOf(lines, ReadRows(lines, kep_skip_rows(lines), TRUE, 0))
        o1 == [o EXCEPT !.kep =
                  Frame(<<"KEP">>,
                        <<"a", "e", "i", "long. node", "arg.s peric.",
                          "mean anomaly">>, SliceRow(df, 0, 1, 7))]
        pidx == get_indexes(df, "PERIHELION")
        p == pidx[1][1]
        o2 == [o1 EXCEPT !.perihelion = MatrixText(iloc(df, p, 2)),
                         !.aphelion = MatrixText(iloc(df, p + 1, 2)),
                         !.anode = MatrixText(iloc(df, p + 2, 2)),
                         !.dnode = MatrixText(iloc(df, p + 3, 2)),
                         !.moid = MatrixText(iloc(df, p + 4, 2)),
                         !.period = MatrixText(iloc(df, p + 5, 2)),
                         !.pha = MatrixText(iloc(df, p + 6, 2)),
                         !.vinfty = MatrixText(iloc(df, p + 7, 2))]
        check_upar == get_indexes(df, "U_PAR")
        o3 == [o2 EXCEPT !.u_par =
                  IF check_upar = <<>>
                  THEN MatrixText("There is no u_par assigned to this object")
                  ELSE MatrixText(iloc(df, check_upar[1][1], 2))]
        ridx == get_indexes(df, "RMS")
        dim == matrix_dimension_of(o.lsp)
    IN  IF pidx = <<>> THEN Step(Raise("IndexError"), o1)
        ELSE IF ridx = <<>> THEN Step(Raise("IndexError"), o3)
        ELSE Step(Return("rms"),
                  [o3 EXCEPT !.rms =
                      Frame(<<"RMS">>, kep_rms_names(dim, o.ngr),
                            SliceRow(df, ridx[1][1], 2, 2 + rms_width(dim)))])

\* _orb_equi_prop_parser lines 1470-1549, after the parent's parser
equi_elements(lines, o) ==
    LET df == TableOf(lines, ReadRows(lines, last_skip_rows(lines), TRUE, 0))
        o1 == [o EXCEPT !.equinoctial =
                  Frame(<<"EQU">>, equi_rms_names(6, o.ngr),
                        SliceRow(df, 0, 1, 7))]
        ridx == get_indexes(df, "RMS")
        r == ridx[1][1]
        dim == matrix_dimension_of(o.lsp)
        names == equi_rms_names(dim, o.ngr)
        w == 2 + rms_width(dim)
    IN  IF ridx = <<>> THEN Step(Raise("IndexError"), o1)
        ELSE Step(Return("rms"),
                  [o1 EXCEPT
                      !.rms = Frame(<<"RMS">>, names, SliceRow(df, r, 2, w)),
                      !.eig = Frame(<<"EIG">>, names,
                                    SliceRow(df, r + 1, 2, w)),
                      !.wea = Frame(<<"WEA">>, names,
                                    SliceRow(df, r + 2, 2, w))])

\* the table the variant hands to _get_matrix
matrix_table(lines, orbit_element) ==
    TableOf(lines,
        ReadRows(lines,
            IF orbit_element = "keplerian" THEN kep_skip_rows(lines)
            ELSE last_skip_rows(lines), TRUE, 0))

\* _orb_prop_parser, called first by both variants
OrbBase ==
    /\ pc = "orb_start"
    /\ LET st == orb_prop_parser(OrbLines(doc), obj)
       IN  /\ obj' = st.obj
           /\ IF st.result.kind = "raise"
              THEN result' = st.result /\ pc' = "done"
              ELSE result' = result /\ pc' = "orb_elements"
    /\ UNCHANGED <<callVars, doc>>

\* the variant's own attributes up to the RMS rows
OrbElements ==
    /\ pc = "orb_elements"
    /\ LET st == IF doc.orbit_element = "keplerian"
                 THEN kep_elements(OrbLines(doc), obj)
                 ELSE equi_elements(OrbLines(doc), obj)
       IN  /\ obj' = st.obj
           /\ IF st.result.kind = "raise"
              THEN result' = st.result /\ pc' = "done"
              ELSE result' = result /\ pc' = "orb_cov"
    /\ UNCHANGED <<callVars, doc>>

\* lines 1403-1405 and 1550-1552: self.cov
OrbCov ==
    /\ pc = "orb_cov"
    /\ LET dim == matrix_dimension_of(obj.lsp)
           mat == get_matrix(matrix_table(OrbLines(doc), doc.orbit_element),
                      "cov", dim, doc.orbit_element,
                      ngr_parameter_of(dim, obj.ngr))
       IN  IF mat.kind = "raise"
           THEN result' = mat /\ pc' = "done" /\ obj' = obj
           ELSE /\ result' = result
                /\ pc' = "orb_second"
                /\ obj' = [obj EXCEPT !.cov = mat.val]
    /\ UNCHANGED <<callVars, doc>>

\* lines 1406-1408 and 1553-1555: self.cor, self.nor
OrbSecond ==
    /\ pc = "orb_second"
    /\ LET dim == matrix_dimension_of(obj.lsp)
           kep == doc.orbit_element = "keplerian"
           mat == get_matrix(matrix_table(OrbLines(doc), doc.orbit_element),
                      IF kep THEN "cor" ELSE "nor", dim, doc.orbit_element,
                      ngr_parameter_of(dim, obj.ngr))
       IN  IF mat.kind = "raise"
           THEN result' = mat /\ obj' = obj
           ELSE /\ result' = Return(IF kep THEN "KeplerianOrbitProperties"
                                    ELSE "EquinoctialOrbitProperties")
                /\ obj' = IF kep THEN [obj EXCEPT !.cor = mat.val]
                          ELSE [obj EXCEPT !.nor = mat.val]
    /\ pc' = "done"
    /\ UNCHANGED <<callVars, doc>>

InitOrbit ==
    /\ pc = "orb_start"
    /\ op = "none"
    /\ sel = "orbit_properties"
    /\ name = <<>>
    /\ kwargs = NoKwargs
    /\ url = <<>>
    /\ fetches = <<>>
    /\ msgs = <<>>
    /\ data = "none"
    /\ result = NoResult
    /\ doc \in OrbDocs
    /\ obj = OrbInit

NextOrbit == OrbBase \/ OrbElements \/ OrbCov \/ OrbSecond

SpecOrbit == InitOrbit /\ [][NextOrbit]_vars

\* C12: every parser that looks up an anchor through get_indexes branches
\* on the emptiness of the result before taking its first element: a file
\* that lacks an anchor never ends in an index-out-of-range failure.
C12_AbsentAnchorNoIndexError ==
    pc = "done" => result # Raise("IndexError")

(***************************************************************************)
(* lists.py: parse_clo on a payload                                        *)
(*                                                                         *)
(* A payload is a sequence of lines, a line the sequence of its fields     *)
(* between '|'.  Lines 0 and 1 are titles, line 2 names the columns, line  *)
(* 3 is a rule, the data rows follow.  The date is the second field.       *)
(***************************************************************************)

\* most data rows of a close approaches payload tried
MaxCloRows == 3

\* numbers of fields of the lines of the payloads tried: 1 is a page
\* without '|', 11 is the list (10 columns and the empty field after the
\* last '|')
CloWidths == {1, 2, 10, 11, 12}

\* the payloads tried: cut = -1 for a whole payload, else the number of
\* lines (0, 1, 2) of a payload that ends before the line of the column
\* names; baddate: the date of the last row is no date
CloDocs ==
    { d \in [cut : -1..2, width : CloWidths, rows : 0..MaxCloRows,
             baddate : BOOLEAN] :
        /\ d.cut >= 0 => (d.width = 1 /\ d.rows = 0)
        /\ d.baddate => (d.rows > 0 /\ d.width >= 2) }

CloLine(first, second, width) ==
    [k \in 1..width |-> IF k = 1 THEN first ELSE IF k = 2 THEN second ELSE "x"]

CloLines(d) ==
    IF d.cut >= 0 THEN [k \in 1..d.cut |-> <<"<html>">>]
    ELSE << <<"title">>, <<"subtitle">>,
            CloLine("Object Name", "Date", d.width),
            CloLine("----", "----", d.width) >>
         \o [k \in 1..d.rows |->
                CloLine("433", IF d.baddate /\ k = d.rows THEN "n/a"
                               ELSE "2030-01-01", d.width)]

\* parse_clo before it looks at the columns
CloInit == [columns |-> -1, renamed |-> FALSE, dated |-> FALSE]

\* the test of line 290 without its equality
server_error_lt(ncolumns) == ncolumns < 1

\* line 290: len(neocc_lst.columns) <= 1
server_error(ncolumns) == ncolumns <= 1

\* lines 286-292: read_csv with skiprows=[3], header=2 needs the line of
\* the column names (no line at all: EmptyDataError; fewer than three:
\* ParserError, a ValueError); then the test of the number of columns
CloRead ==
    /\ pc = "clo_start"
    /\ LET lines == CloLines(doc)
           kept == KeptLines(lines, {3})
       IN  IF lines = <<>>
           THEN result' = Raise("EmptyDataError") /\ pc' = "done" /\ obj' = obj
           ELSE IF Len(kept) < 3
           THEN result' = Raise("ValueError") /\ pc' = "done" /\ obj' = obj
           ELSE LET n == Len(lines[kept[3] + 1])
                IN  /\ obj' = [obj EXCEPT !.columns = n]
                    /\ IF server_error(n)
                       THEN result' = Raise("ConnectionError") /\ pc' = "done"
                       ELSE result' = result /\ pc' = "clo_rename"
    /\ UNCHANGED <<callVars, doc>>

\* lines 293-308: the last column is dropped and the ten names assigned, a
\* ValueError unless ten columns are left
CloRename ==
    /\ pc = "clo_rename"
    /\ IF obj.columns - 1 # 10
       THEN result' = Raise("ValueError") /\ pc' = "done" /\ obj' = obj
       ELSE /\ result' = result
            /\ pc' = "clo_date"
            /\ obj' = [obj EXCEPT !.columns = 10, !.renamed = TRUE]
    /\ UNCHANGED <<callVars, doc>>

\* lines 310-313: to_datetime of the column Date (a ValueError for a field
\* that is no date), then get_dec_year
CloDate ==
    /\ pc = "clo_date"
    /\ IF doc.baddate
       THEN result' = Raise("ValueError") /\ obj' = obj
       ELSE result' = Return("DataFrame") /\ obj' = [obj EXCEPT !.dated = TRUE]
    /\ pc' = "done"
    /\ UNCHANGED <<callVars, doc>>

InitClo ==
    /\ pc = "clo_start"
    /\ op = "none"
    /\ sel = "close_approaches_upcoming"
    /\ name = <<>>
    /\ kwargs = NoKwargs
    /\ url = <<>>
    /\ fetches = <<>>
    /\ msgs = <<>>
    /\ data = "none"
    /\ result = NoResult
    /\ doc \in CloDocs
    /\ obj = CloInit

NextClo == CloRead \/ CloRename \/ CloDate

SpecClo == InitClo /\ [][NextClo]_vars

\* the payload has the line of the column names, and so resolves to a
\* number of columns
CloResolves == doc.cut = -1

\* C13: parse_clo raises ConnectionError for every payload that resolves to
\* at most one column, before any renaming or date conversion, and raises
\* no ConnectionError for a payload of more than one column.
C13_ServerErrorIffOneColumn ==
    (pc = "done" /\ CloResolves) =>
        IF doc.width <= 1
        THEN /\ result = Raise("ConnectionError")
             /\ ~obj.renamed
             /\ ~obj.dated
        ELSE result # Raise("ConnectionError")

\* a page of one field a line was refused after the columns were counted
C13_Witness ==
    /\ pc = "done"
    /\ doc.cut = -1
    /\ doc.width = 1
    /\ obj.columns = 1
    /\ result = Raise("ConnectionError")

(***************************************************************************)
(* lists.py: get_dec_year                                                  *)
(*                                                                         *)
(* A date is a naive datetime: year, day of the year counted from 0,       *)
(* second of the day, and half = 1 for an instant half a second later.     *)
(* time.mktime reads it as local time of the zone of the machine.          *)
(***************************************************************************)

DecYears == {2019, 2020, 2021}

IsLeap(year) ==
    year % 4 = 0 /\ (year % 100 # 0 \/ year % 400 = 0)

DaysIn(year) == IF IsLeap(year) THEN 366 ELSE 365

\* the local zones tried: one without and one with daylight saving time
TimeZones == {"UTC", "Europe/Madrid"}

\* the dates tried: the first two days, a day of July and the last day of
\* the year, at the first, second and last second of the day
DecDates ==
    { d \in [year : DecYears, day : 0..365, sec : {0, 1, 86399},
             half : {0, 1}, tz : TimeZones] :
        d.day \in {0, 1, 182, DaysIn(d.year) - 1} }

\* days from 1970-01-01 to January 1st of a year (1970 <= year < 2100)
DaysBefore(year) == (year - 1970) * 365 + ((year - 1969) \div 4)

\* the zone counts one hour more between the last Sundays of March and of
\* October; the days tried are far from both
is_dst(tz, day) == tz = "Europe/Madrid" /\ day \in 100..290

\* since_epoch, lines 126-141: time.mktime(date.timetuple()); a time tuple
\* holds whole seconds (the half second is not in it), and mktime takes it
\* as local time
since_epoch(year, day, sec, half, tz) ==
    (DaysBefore(year) + day) * 86400 + sec
    - (IF is_dst(tz, day) THEN 3600 ELSE 0)

\* get_dec_year, lines 143-156: decimal_year is year + num / den
get_dec_year(date) ==
    LET year_start == since_epoch(date.year, 0, 0, 0, date.tz)
        next_year == since_epoch(date.year + 1, 0, 0, 0, date.tz)
        year_elapsed ==
            since_epoch(date.year, date.day, date.sec, date.half, date.tz)
            - year_start
        year_duration == next_year - year_start
    IN  [year |-> date.year, num |-> year_elapsed, den |-> year_duration]

GetDecYear ==
    /\ pc = "dec_start"
    /\ obj' = get_dec_year(doc)
    /\ result' = Return("decimal_year")
    /\ pc' = "done"
    /\ UNCHANGED <<callVars, doc>>

InitDecYear ==
    /\ pc = "dec_start"
    /\ op = "none"
    /\ sel = "get_dec_year"
    /\ name = <<>>
    /\ kwargs = NoKwargs
    /\ url = <<>>
    /\ fetches = <<>>
    /\ msgs = <<>>
    /\ data = "none"
    /\ result = NoResult
    /\ doc \in DecDates
    /\ obj = [year |-> 0, num |-> 0, den |-> 1]

NextDecYear == GetDecYear

SpecDecYear == InitDecYear /\ [][NextDecYear]_vars

\* half seconds of the local clock from January 1st 00:00 to the date
ElapsedHalves ==
    2 * (doc.day * 86400 + doc.sec
         - (IF is_dst(doc.tz, doc.day) THEN 3600 ELSE 0)) + doc.half

\* C14: get_dec_year maps January 1st 00:00 of year Y to exactly Y and
\* every instant strictly after it and strictly before January 1st 00:00
\* of Y+1 to a value strictly between Y and Y+1, the fraction being the
\* elapsed seconds since the year start over the seconds of the year (365
\* or 366 days).
C14_DecimalYearFraction ==
    pc = "done" =>
        /\ obj.year = doc.year
        /\ obj.den = DaysIn(doc.year) * 86400
        /\ ElapsedHalves = 0 => obj.num = 0
        /\ ElapsedHalves > 0 => (0 < obj.num /\ obj.num < obj.den)
        /\ 2 * obj.num = ElapsedHalves

(***************************************************************************)
(* tabs.py: CloseApproaches.clo_appr_parser, and the parsers on the empty  *)
(* document                                                                *)
(***************************************************************************)

\* most rows of a close approaches file of an object tried
MaxApprRows == 2

\* the lines of a close approaches file: the column names, then the rows
ApprLines(payload, rows) ==
    IF payload = "" THEN <<>>
    ELSE << <<"BODY", "CALENDAR-TIME", "MJD-TIME">> >>
         \o [k \in 1..rows |-> <<"EARTH", "2029/04/13.9", "62239.9">>]

\* clo_appr_parser, lines 389-403: the check of the empty document, then
\* read_csv; the function has no attributes, obj is what it returns
CloApprParser ==
    /\ pc = "appr_start"
    /\ LET lines == ApprLines(data, doc)
       IN  IF lines = <<>>
           THEN result' = Raise("ValueError") /\ obj' = obj
           ELSE /\ result' = Return("DataFrame")
                /\ obj' = Table(ReadRows(lines, {}, TRUE, 0))
    /\ pc' = "done"
    /\ UNCHANGED <<callVars, doc>>

InitCloAppr ==
    /\ pc = "appr_start"
    /\ op = "none"
    /\ sel = "close_approaches"
    /\ name = <<>>
    /\ kwargs = NoKwargs
    /\ url = <<>>
    /\ fetches = <<>>
    /\ msgs = <<>>
    /\ \/ data = "clolin" /\ doc \in 0..MaxApprRows
       \/ data = "" /\ doc = 0
    /\ result = NoResult
    /\ obj = EmptyList

\* the four parsers, each on its documents and on the empty document
InitParsers == InitCloAppr \/ InitObs \/ InitOrbit

NextParsers == CloApprParser \/ NextObs \/ NextOrbit

SpecParsers == InitParsers /\ [][NextParsers]_vars

\* the parser was given the empty document
EmptyDocument ==
    IF sel = "orbit_properties" THEN doc.empty ELSE data = ""

\* the attributes as the constructor left them
InitialAttributes ==
    CASE sel = "orbit_properties" -> obj = OrbInit
      [] sel = "observations" -> obj = ObsInit
      [] OTHER -> obj = EmptyList

\* C15: given the empty document, the close approaches parser, the
\* observations parser and both orbit properties parsers raise ValueError,
\* and no attribute of the result object has been assigned.
C15_EmptyDocumentValueError ==
    (pc = "done" /\ EmptyDocument) =>
        /\ result = Raise("ValueError")
        /\ InitialAttributes

\* the observations parser has refused the empty document
C15_Witness ==
    /\ pc = "done"
    /\ sel = "observations"
    /\ data = ""
    /\ result = Raise("ValueError")
    /\ obj = ObsInit

(***************************************************************************)
(* The error kinds of query_list and query_object                          *)
(***************************************************************************)

\* the answer to the last request of the call
LastAnswer == fetches[Len(fetches)].answer

\* an invalid selector: those of C3, and orbit_properties asked with an
\* orbit_elements or orbit_epoch that is none of the valid values
InvalidSelectorOrValue ==
    \/ InvalidSelector
    \/ /\ op = "query_object"
       /\ sel = "orbit_properties"
       /\ OrbitKeys \subseteq DOMAIN kwargs
       /\ \/ kwargs["orbit_elements"] \notin {"keplerian", "equinoctial"}
          \/ kwargs["orbit_epoch"] \notin {"present", "middle"}

\* a transient server error: the last answer to the request of a close
\* approaches list is the page of one column
TransientServerError ==
    /\ op = "query_list"
    /\ sel \in {"close_appr_upcoming", "close_appr_recent",
                "close_encounter"}
    /\ fetches # <<>>
    /\ LastAnswer = Return("degenerate")

\* data unavailable for the object: the risk file without impacts, the
\* empty close approaches or observations file
DataUnavailable ==
    /\ op = "query_object"
    /\ fetches # <<>>
    /\ \/ sel = "impacts" /\ LastAnswer = Return("nodata")
       \/ sel \in {"close_approaches", "observations"} /\ LastAnswer = Return("empty")

\* C16: the error kinds are distinguishable by exception kind: every
\* invalid selector (unknown list name, unknown tab, missing or invalid
\* orbit_elements or orbit_epoch, missing ephemerides argument) raises
\* KeyError, every transient server error ConnectionError, every data
\* unavailable condition ValueError, and none the kind of another class.
C16_ErrorKindsDistinct ==
    pc = "done" =>
        /\ InvalidSelectorOrValue => result = Raise("KeyError")
        /\ TransientServerError => result = Raise("ConnectionError")
        /\ DataUnavailable => result = Raise("ValueError")

(***************************************************************************)
(* The kind of table parse_list returns                                    *)
(***************************************************************************)

CatalogueLists == {"nea_list", "updated_nea", "monthly_update"}

TableLists == {"risk_list", "risk_list_special", "close_appr_upcoming",
               "close_appr_recent", "priority_list", "priority_list_faint"}

ExpectedSuffix(tab, kw) ==
    CASE tab = "impacts" -> <<".", "r", "i", "s", "k">>
      [] tab = "close_approaches" -> <<".", "c", "l", "o", "l", "i", "n">>
      [] tab = "observations" -> <<".", "r", "w", "o">>
      [] tab = "orbit_properties" ->
            CASE kw["orbit_elements"] = "keplerian"
                 /\ kw["orbit_epoch"] = "present" -> <<".ke1">>
              [] kw["orbit_elements"] = "keplerian"
                 /\ kw["orbit_epoch"] = "middle" -> <<".ke0">>
              [] kw["orbit_elements"] = "equinoctial"
                 /\ kw["orbit_epoch"] = "present" -> <<".eq1">>
              [] kw["orbit_elements"] = "equinoctial"
                 /\ kw["orbit_epoch"] = "middle" -> <<".eq0">>

\* the tab and arguments for which get_object_url is to give a file name
ValidFileRequest ==
    /\ op = "query_object"
    /\ \/ sel \in {"impacts", "close_approaches", "observations"}
       \/ /\ sel = "orbit_properties"
          /\ OrbitKeys \subseteq DOMAIN kwargs
          /\ kwargs["orbit_elements"] \in {"keplerian", "equinoctial"}
          /\ kwargs["orbit_epoch"] \in {"present", "middle"}

\* C18: the file name is the designator with each space replaced by %20,
\* followed by .risk for impacts, .clolin for close_approaches, .rwo for
\* observations and, for orbit_properties, .ke1 (keplerian, present), .ke0
\* (keplerian, middle), .eq1 (equinoctial, present), .eq0 (equinoctial,
\* middle).
C18_ObjectUrl ==
    ValidFileRequest =>
        LET suffix == ExpectedSuffix(sel, kwargs)
        IN  /\ Len(url) = Len(name) + Len(suffix)
            /\ \A i \in 1..Len(name) :
                   url[i] = IF name[i] = " " THEN "%20" ELSE name[i]
            /\ \A i \in 1..Len(suffix) : url[Len(name) + i] = suffix[i]

C18_Witness ==
    /\ ValidFileRequest
    /\ sel = "orbit_properties"
    /\ name = <<"2", "1", " ", "D", "E">>
    /\ kwargs["orbit_elements"] = "equinoctial"
    /\ kwargs["orbit_epoch"] = "middle"
    /\ url = <<"2", "1", "%20", "D", "E", ".eq0">>

(***************************************************************************)
(* The roving observer and satellite tables                                *)
(***************************************************************************)

\* the numbers (from 0) of the lines of the file whose T cell is the mark
MarkedLines(lines, mark) ==
    { n \in 0..(Len(lines) - 1) : Cell(lines[n + 1], 3) = mark }

\* C19: for both header lengths (RMSmag line present or absent) the rows of
\* the roving observer table are exactly the lines of the file that carry
\* the mark 'v', and the rows of the satellite table exactly the lines that
\* carry the mark 's'.
C19_MarkedLinesExactly ==
    (pc = "done" /\ result = Return("AsteroidObservations")) =>
        /\ Range(obj.roving_observations.rows)
               = MarkedLines(ObsLines(doc), "v")
        /\ Range(obj.sat_observations.rows)
               = MarkedLines(ObsLines(doc), "s")

(***************************************************************************)
(* The optical and the radar table of a file with a radar section          *)
(***************************************************************************)

\* the number (from 0) of the line that opens the radar section: the last
\* '! Object' line of the file
RadarMarkerLine(lines) ==
    CHOOSE n \in 0..(Len(lines) - 1) :
        /\ Cell(lines[n + 1], 1) = RadarMarker
        /\ \A m \in (n + 1)..(Len(lines) - 1) :
               Cell(lines[m + 1], 1) # RadarMarker

\* C20: when the file has a radar section, for both header lengths (RMSmag
\* line present or absent), the optical table has no row at or after the
\* line of the radar marker, and the line read as column header of the
\* radar table is the line right after the marker.
C20_RadarSplit ==
    (pc = "done" /\ data = "rwo" /\ doc.radar >= 0) =>
        LET marker == RadarMarkerLine(ObsLines(doc))
        IN  /\ \A i \in DOMAIN obj.optical_observations.rows :
                   obj.optical_observations.rows[i] < marker
            /\ obj.radar_observations.kind = "table"
            /\ obj.radar_observations.header = marker + 1

(***************************************************************************)
(* The skip rows of the three orbit parsers                                *)
(***************************************************************************)

\* the skip rows with which the variant reads the data section
variant_skip_rows(lines, orbit_element) ==
    IF orbit_element = "keplerian" THEN kep_skip_rows(lines)
    ELSE last_skip_rows(lines)

\* the element row the variant has assigned
ElementRow == IF doc.orbit_element = "keplerian" THEN obj.kep
              ELSE obj.equinoctial

\* C21: the base parser and the Keplerian and Equinoctial variants read the
\* data section of a document with the same skip rows, the set shifted by
\* one when the '! SOLUTION' line is present and the unshifted set
\* otherwise, so that the element row is the KEP or EQU line of the file
\* in every variant.
C21_SameSkipRows ==
    (pc \in {"orb_cov", "orb_second", "done"} /\ ElementRow.kind = "frame") =>
        /\ variant_skip_rows(OrbLines(doc), doc.orbit_element)
               = last_skip_rows(OrbLines(doc))
        /\ last_skip_rows(OrbLines(doc))
               = IF doc.solution THEN {0, 1, 2, 3, 4, 5, 10}
                 ELSE {0, 1, 2, 3, 4, 9}
        /\ ElementRow.cells = <<Numbers(6)>>

(***************************************************************************)
(* The non-gravitational parameters of _orb_prop_parser                    *)
(***************************************************************************)

\* _orb_prop_parser has run on a file that has its LSP line
BaseParsed == pc # "orb_start" /\ ~doc.empty /\ "LSP" \notin doc.absent

\* C22: for every document whose LSP dimension is 7 or 8 _orb_prop_parser
\* completes and sets ngr to a table of one row named 'NGR' with as many
\* columns as column names; for dimension 6 it sets ngr to the text that
\* says there are no such parameters.
C22_NgrTable ==
    BaseParsed =>
        IF doc.dimension \in {7, 8}
        THEN /\ obj.ngr.kind = "frame"
             /\ obj.ngr.index = <<"NGR">>
             /\ Len(obj.ngr.cells) = 1
             /\ Len(obj.ngr.cells[1]) = Len(obj.ngr.columns)
        ELSE obj.ngr = MatrixText("There are no gravitational parameters calculated for this object")

(***************************************************************************)
(* The cells of the matrix and the serialized entries                      *)
(***************************************************************************)

\* C23: for every cell (r, c), r <= c, of the matrix _get_matrix produces
\* for dimension 6, 7 or 8, the value is the k-th serialized entry after
\* the anchor, k the row-major index of (r, c) in the upper triangle,
\* entries stored three a line; as the entries tried are all different,
\* each of the d*(d+1)/2 entries is then the value of exactly one cell of
\* the upper triangle.
C23_UpperTriangleEntries ==
    (pc = "done" /\ obj.kind = "frame") =>
        /\ Len(obj.cells) = doc.dimension
        /\ \A c \in 1..doc.dimension :
              /\ Len(obj.cells[c]) = doc.dimension
              /\ \A r \in 1..c :
                    obj.cells[c][r] =
                        TriangleValue(matrix_dict(doc.matrix_name),
                            TriangleIndex(doc.dimension, r - 1, c - 1),
                            doc.mult)

(***************************************************************************)
(* The names of the covariance matrix and of the RMS row                   *)
(***************************************************************************)

\* C24: for the Keplerian and the Equinoctial variant and each dimension,
\* the row names and the column names of the covariance matrix are,
\* element for element, the column names of the RMS row of the same parse.
C24_MatrixNamesAreRmsNames ==
    (pc \in {"orb_second", "done"} /\ obj.cov.kind = "frame") =>
        /\ obj.cov.index = obj.rms.columns
        /\ obj.cov.columns = obj.rms.columns

(***************************************************************************)
(* Parse failures and the second request                                   *)
(***************************************************************************)

\* the call ended with a failure of the parser on a payload the portal
\* delivered: data unavailable (ValueError) or malformed content, not the
\* ConnectionError of a transient server error; the calls are those of
\* query_list and of the tabs of query_object read from one file
ParseFailureEnd ==
    /\ pc = "done"
    /\ op = "query_list" \/ (op = "query_object" /\ sel \in RetryTabs)
    /\ fetches # <<>>
    /\ LastAnswer.kind = "return"
    /\ result.kind = "raise"
    /\ result.val # "ConnectionError"

NonEmptyTable(t) == t.kind = "table" /\ t.rows # <<>>

\* C26: after a successful parse of an observations file,
\* roving_observations is the text iff no body row carries the mark 'v',
\* sat_observations is the text iff no body row carries the mark 's',
\* radar_observations is the text iff the file has no radar marker, and an
\* attribute that is not the text is a table with rows.
C26_TextIffAbsent ==
    (pc = "done" /\ result = Return("AsteroidObservations")) =>
        /\ obj.roving_observations = NoRoving <=> "v" \notin Range(doc.body)
        /\ obj.sat_observations = NoSat <=> "s" \notin Range(doc.body)
        /\ obj.radar_observations = NoRadar <=> doc.radar < 0
        /\ obj.roving_observations # NoRoving
               => NonEmptyTable(obj.roving_observations)
        /\ obj.sat_observations # NoSat
               => NonEmptyTable(obj.sat_observations)
        /\ obj.radar_observations # NoRadar
               => NonEmptyTable(obj.radar_observations)

(***************************************************************************)
(* The footer of the impacts file with and without the note                *)
(***************************************************************************)

\* C27: whether the file holds the note marker '<p> </p>' alone decides the
\* layout of the footer, and _impacts_parser and _get_footer detect it
\* alike: without the marker the footer length is 12, the footer lines are
\* read at their unshifted offsets and additional_note is the text that
\* says there is none; with the marker the footer length is 21, every
\* offset is shifted by 6 lines and additional_note is the 5 lines after
\* the marker with the decorative tags removed.
C27_NoteDecidesFooter ==
    (pc = "done" /\ result = Return("Impacts")) =>
        /\ obj.footer_num = 21 <=> obj.j = 6
        /\ obj.footer_num = IF doc.note THEN 21 ELSE 12
        /\ obj.j = IF doc.note THEN 6 ELSE 0
        /\ obj.observations = Text("Based")
        /\ obj.arc = Text("from")
        /\ obj.info = TextLines(<<"info1", "info2", "info3", "info4">>)
        /\ obj.computation = Text("comp")
        /\ obj.additional_note =
              IF doc.note
              THEN TextLines(<< <<"note1">>, <<"10", "^", "-6">>, <<"note3">>,
                                <<"note4">>, <<"note5">> >>)
              ELSE Text("There is no additional note for this object")

C27_Witness ==
    /\ pc = "done"
    /\ result = Return("Impacts")
    /\ doc.note
    /\ Len(doc.rows) = 2
    /\ obj.footer_num = 21
    /\ obj.j = 6
    /\ obj.observations = Text("Based")
    /\ obj.additional_note.rows[2] = <<"10", "^", "-6">>

(***************************************************************************)
(* get_object_url and the invalid pairs of orbit arguments                 *)
(***************************************************************************)

\* orbit_properties asked with a pair (orbit_elements, orbit_epoch) that
\* names no file
InvalidOrbitPair ==
    /\ op = "query_object"
    /\ sel = "orbit_properties"
    /\ OrbitKeys \subseteq DOMAIN kwargs
    /\ \/ kwargs["orbit_elements"] \notin {"keplerian", "equinoctial"}
       \/ kwargs["orbit_epoch"] \notin {"present", "middle"}

\* C28: for the tab orbit_properties get_object_url raises ValueError for
\* every pair in which orbit_elements is not 'keplerian' or 'equinoctial'
\* or orbit_epoch is not 'present' or 'middle'; it fails with no other
\* kind of error and returns no url for such a pair.
C28_InvalidPairValueError ==
    InvalidOrbitPair =>
        /\ pc = "done"
        /\ result = Raise("ValueError")
        /\ url = <<>>

(***************************************************************************)
(* The row of the first element of get_indexes                             *)
(***************************************************************************)

\* the columns (from 0) of the table that hold the value
ColumnsWith(table, value) ==
    { c \in 0..(Width(table) - 1) :
        \E r \in DOMAIN table : Cell(table[r], c + 1) = value }

\* the rows (from 0) at which the value occurs in the columns cs
RowsWith(table, value, cs) ==
    { r \in 0..(Len(table) - 1) :
        \E c \in cs : Cell(table[r + 1], c + 1) = value }

Least(S) == CHOOSE x \in S : \A y \in S : x <= y

\* C29 as stated: the row of the first element get_indexes returns is the
\* smallest row index at which the value occurs in the table, also when
\* the value occurs in more than one column.
C29_FirstIsSmallestRow ==
    (pc = "done" /\ obj # <<>>) =>
        obj[1][1] = Least(RowsWith(doc.table, doc.value,
                                   ColumnsWith(doc.table, doc.value)))

\* C29: the first element get_indexes returns lies in the first column, in
\* column order, that holds the value, at the smallest row index at which
\* the value occurs in that column; when the value occurs in one column
\* only, as the anchors of the files do, that row is the smallest row
\* index at which the value occurs in the table.
C29_FirstIsSmallestRowOfFirstColumn ==
    (pc = "done" /\ obj # <<>>) =>
        LET cs == ColumnsWith(doc.table, doc.value)
        IN  /\ obj[1][2] = Least(cs)
            /\ obj[1][1] = Least(RowsWith(doc.table, doc.value, {Least(cs)}))
            /\ Cardinality(cs) = 1 =>
                   obj[1][1] = Least(RowsWith(doc.table, doc.value, cs))

\* the value occurs in the second row of the first column and in both rows
\* of the second column: the first element is in the second row
C29_Witness ==
    /\ pc = "done"
    /\ doc.value = "RMS"
    /\ doc.table = << <<"1.5", "RMS">>, <<"RMS", "RMS">> >>
    /\ obj[1] = <<1, 0>>

(***************************************************************************)
(* The list names of get_list_url and the branches of parse_list           *)
(***************************************************************************)

\* lines 174-189: the names each branch of parse_list tests for, with the
\* parser the branch calls
parse_list_branches ==
    << <<{"nea_list", "updated_nea", "monthly_update"}, "parse_nea">>,
       <<{"risk_list", "risk_list_special"}, "parse_risk">>,
       <<{"close_appr_upcoming", "close_appr_recent"}, "parse_clo">>,
       <<{"priority_list", "priority_list_faint"}, "parse_pri">>,
       <<{"close_encounter"}, "parse_encounter">>,
       <<{"impacted_objects"}, "parse_impacted">> >>

\* the branches that handle a name
BranchesOf(list_name) ==
    { k \in DOMAIN parse_list_branches :
        list_name \in parse_list_branches[k][1] }

\* the names get_list_url accepts, among the names tried
AcceptedNames == { n \in ListNames : get_list_url(n).kind = "return" }

\* the names for which parse_list binds its result
HandledNames ==
    { n \in ListNames :
        \A p \in Payloads : parse_list(n, p) # Raise("UnboundLocalError") }

\* C30: every list name get_list_url accepts is routed by parse_list to
\* exactly one parser, so that no query_list call whose name passed
\* get_list_url ends with an unassigned result; the names get_list_url
\* accepts are the names the branches of parse_list handle.
C30_AcceptedNamesRouted ==
    /\ AcceptedNames = HandledNames
    /\ \A n \in ListNames :
          /\ n \in AcceptedNames => Cardinality(BranchesOf(n)) = 1
          /\ n \in HandledNames <=> BranchesOf(n) # {}
    /\ (op = "query_list" /\ pc # "idle" /\ sel \in AcceptedNames) =>
          result # Raise("UnboundLocalError")
    /\ (op = "query_list" /\ pc = "done" /\ result = Raise("KeyError")
        /\ fetches = <<>>) => sel \notin HandledNames

C30_Witness ==
    /\ op = "query_list"
    /\ pc = "done"
    /\ sel = "impacted_objects"
    /\ sel \in AcceptedNames
    /\ LastAnswer = Return("good")
    /\ result = Return("DataFrame")

====
